---- MODULE Spec2Model ----
(***************************************************************************)
(* Financial calculator (app.js): the calculator's state object and its    *)
(* key handlers, with the TVM, cash-flow and amortization arithmetic.      *)
(*                                                                         *)
(* Numbers.  A JavaScript number is modelled as a pair <<n, d>>: the       *)
(* rational n/d in lowest terms with d > 0, or one of the three special    *)
(* values <<0,0>> (NaN), <<1,0>> (Infinity), <<-1,0>> (-Infinity).  null   *)
(* is the empty tuple.  Every arithmetic operation computes the exact      *)
(* rational result and then rounds it to a representable number: a         *)
(* rational whose numerator and denominator are at most MaxRat is kept     *)
(* exactly, any other is replaced by its last continued-fraction           *)
(* convergent that fits, a magnitude above MaxRat overflows to Infinity    *)
(* and one below 1/MaxRat underflows to 0.  This is the model's            *)
(* counterpart of IEEE-754 rounding at a reduced precision; negative zero  *)
(* is not distinguished from zero.                                         *)
(***************************************************************************)
EXTENDS Integers, Sequences, FiniteSets, TLC

\* Precision of the number format: largest numerator and denominator kept.
MaxRat == 30000

Null == <<>>
NaN == <<0, 0>>
PosInf == <<1, 0>>
NegInf == <<-1, 0>>
Zero == <<0, 1>>
One == <<1, 1>>
Two == <<2, 1>>

IntAbs(k) == IF k < 0 THEN -k ELSE k

\* The continued-fraction convergents of n/d (n >= 0, d > 0); h1/k1 is the
\* previous convergent and h0/k0 the one before it.
RECURSIVE Convergent(_, _, _, _, _, _)
Convergent(n, d, h1, k1, h0, k0) ==
  LET a == n \div d
  IN  IF a > MaxRat THEN <<h1, k1>>
      ELSE LET h == a * h1 + h0
               k == a * k1 + k0
           IN  IF h > MaxRat \/ k > MaxRat THEN <<h1, k1>>
               ELSE IF n % d = 0 THEN <<h, k>>
               ELSE Convergent(d, n % d, h, k, h1, k1)

\* Rounding of the exact quotient n/d (d > 0) to a representable number.
Mk(n, d) ==
  IF n >= 0 THEN Convergent(n, d, 1, 0, 0, 1)
  ELSE LET r == Convergent(-n, d, 1, 0, 0, 1) IN <<-r[1], r[2]>>

FromInt(k) == Mk(k, 1)

IsNull(x) == x = Null
IsNaN(x) == x = NaN
\* isFinite(x) for a number x
IsFinite(x) == x[2] # 0
Sign(x) == IF x[1] > 0 THEN 1 ELSE IF x[1] < 0 THEN -1 ELSE 0

RNeg(x) == <<-x[1], x[2]>>
RAbs(x) == <<IntAbs(x[1]), x[2]>>

RAdd(x, y) ==
  IF IsNaN(x) \/ IsNaN(y) THEN NaN
  ELSE IF x[2] = 0 THEN (IF y[2] = 0 /\ y # x THEN NaN ELSE x)
  ELSE IF y[2] = 0 THEN y
  ELSE Mk(x[1] * y[2] + y[1] * x[2], x[2] * y[2])

RSub(x, y) == RAdd(x, RNeg(y))

RMul(x, y) ==
  IF x[2] = 0 \/ y[2] = 0
  THEN (IF Sign(x) * Sign(y) = 0 THEN NaN ELSE <<Sign(x) * Sign(y), 0>>)
  ELSE Mk(x[1] * y[1], x[2] * y[2])

RDiv(x, y) ==
  IF IsNaN(x) \/ IsNaN(y) THEN NaN
  ELSE IF y[2] = 0 THEN (IF x[2] = 0 THEN NaN ELSE Zero)
  ELSE IF x[2] = 0 THEN (IF Sign(y) < 0 THEN RNeg(x) ELSE x)
  ELSE IF y[1] = 0 THEN (IF x[1] = 0 THEN NaN ELSE <<Sign(x), 0>>)
  ELSE Mk(Sign(y) * x[1] * y[2], x[2] * IntAbs(y[1]))

\* x < y, false when either is NaN
RLt(x, y) ==
  IF IsNaN(x) \/ IsNaN(y) THEN FALSE
  ELSE IF x[2] = 0 \/ y[2] = 0
       THEN (x # y) /\ (x = NegInf \/ y = PosInf)
  ELSE x[1] * y[2] < y[1] * x[2]

RLe(x, y) == (~IsNaN(x) /\ x = y) \/ RLt(x, y)
RGt(x, y) == RLt(y, x)
RGe(x, y) == RLe(y, x)

\* Math.abs(x) < tol and Math.abs(x) > tol for the tolerances of the source
\* (1e-6, 1e-10, 1e-12, 1e-15): each lies below 1/MaxRat, the smallest
\* positive number of the model, so only 0 is below it.
AbsBelowTol(x) == x = Zero
AbsAboveTol(x) == ~IsNaN(x) /\ x # Zero

IsInteger(x) == x[2] = 1
\* Math.floor and Math.round of a finite number, as integers
FloorInt(x) == x[1] \div x[2]
RoundInt(x) == (2 * x[1] + x[2]) \div (2 * x[2])

\* ---- Math.pow, Math.log ----

Square(h) == RMul(h, h)

RECURSIVE IntPow(_, _)
IntPow(b, k) ==
  IF k = 0 THEN One
  ELSE IF k = 1 THEN b
  ELSE IF k % 2 = 0 THEN Square(IntPow(b, k \div 2))
  ELSE RMul(Square(IntPow(b, k \div 2)), b)

Ln2 == <<2731, 3940>>

\* ln of a finite x > 0: x is brought into [1, 2) by halving or doubling,
\* then ln x = 2 (z + z^3/3 + z^5/5 + z^7/7), z = (x - 1)/(x + 1).
LnSeries7(z, z2, z3, z5) ==
  RAdd(RAdd(z, RDiv(z3, <<3, 1>>)),
       RAdd(RDiv(z5, <<5, 1>>), RDiv(RMul(z5, z2), <<7, 1>>)))
LnSeries5(z, z2, z3) == LnSeries7(z, z2, z3, RMul(z3, z2))
LnSeries3(z, z2) == LnSeries5(z, z2, RMul(z, z2))
LnSeries(z) == LnSeries3(z, RMul(z, z))

RECURSIVE LnReduce(_, _)
LnReduce(x, m) ==
  IF RGe(x, Two) THEN LnReduce(RDiv(x, Two), m + 1)
  ELSE IF RLt(x, One) THEN LnReduce(RMul(x, Two), m - 1)
  ELSE RAdd(RMul(<<m, 1>>, Ln2),
            RMul(Two, LnSeries(RDiv(RSub(x, One), RAdd(x, One)))))

MathLog(x) ==
  IF IsNaN(x) \/ Sign(x) < 0 THEN NaN
  ELSE IF x = PosInf THEN PosInf
  ELSE IF x = Zero THEN NegInf
  ELSE LnReduce(x, 0)

\* e^y: y is halved until |y| <= 1/2, the Taylor polynomial of degree 5 is
\* taken there, and the result is squared back.
ExpSeries5(y, y2, y3, y4) ==
  RAdd(RAdd(RAdd(One, y), RAdd(RDiv(y2, Two), RDiv(y3, <<6, 1>>))),
       RAdd(RDiv(y4, <<24, 1>>), RDiv(RMul(y4, y), <<120, 1>>)))
ExpSeries4(y, y2, y3) == ExpSeries5(y, y2, y3, RMul(y3, y))
ExpSeries3(y, y2) == ExpSeries4(y, y2, RMul(y2, y))
ExpSeries(y) == ExpSeries3(y, RMul(y, y))

RECURSIVE ExpReduce(_)
ExpReduce(y) ==
  IF RGt(RAbs(y), <<1, 2>>)
  THEN Square(ExpReduce(RDiv(y, Two)))
  ELSE ExpSeries(y)

MathExp(y) ==
  IF IsNaN(y) THEN NaN
  ELSE IF y = PosInf \/ RGt(y, <<11, 1>>) THEN PosInf
  ELSE IF y = NegInf \/ RLt(y, <<-11, 1>>) THEN Zero
  ELSE ExpReduce(y)

\* Math.pow(b, e) for a finite exponent e: exact repeated multiplication for
\* an integer exponent, exp(e ln b) otherwise.
MathPow(b, e) ==
  IF e = Zero THEN One
  ELSE IF IsNaN(b) \/ IsNaN(e) THEN NaN
  ELSE IF IsInteger(e)
       THEN (IF e[1] > 0 THEN IntPow(b, e[1])
             ELSE RDiv(One, IntPow(b, -e[1])))
  ELSE IF Sign(b) < 0 THEN NaN
  ELSE IF b = Zero THEN (IF Sign(e) > 0 THEN Zero ELSE PosInf)
  ELSE IF b = PosInf THEN (IF Sign(e) > 0 THEN PosInf ELSE Zero)
  ELSE MathExp(RMul(e, MathLog(b)))

\* ---- Strings ----
\* A JavaScript string is a sequence of one-character strings.

DigitChars == <<"0", "1", "2", "3", "4", "5", "6", "7", "8", "9">>
IsDigit(c) == c \in {DigitChars[k] : k \in 1..10}
DigitVal(c) == (CHOOSE k \in 1..10 : DigitChars[k] = c) - 1

RECURSIVE IntStr(_)
IntStr(k) == IF k < 10 THEN <<DigitChars[k + 1]>>
             ELSE Append(IntStr(k \div 10), DigitChars[(k % 10) + 1])

RECURSIVE Pow10(_)
Pow10(k) == IF k = 0 THEN 1 ELSE 10 * Pow10(k - 1)

\* The first k digits of r/d (0 <= r < d) after the decimal point, as an
\* integer, and the remainder left after them.
RECURSIVE FracDigits(_, _, _, _)
FracDigits(r, d, k, acc) ==
  IF k = 0 THEN <<acc, r>>
  ELSE FracDigits((r * 10) % d, d, k - 1, acc * 10 + ((r * 10) \div d))

\* The k digits of f, leading zeros kept.
RECURSIVE PadDigits(_, _)
PadDigits(f, k) ==
  IF k = 0 THEN <<>>
  ELSE Append(PadDigits(f \div 10, k - 1), DigitChars[(f % 10) + 1])

RECURSIVE StripZeros(_)
StripZeros(s) ==
  IF s # <<>> /\ s[Len(s)] = "0" THEN StripZeros(SubSeq(s, 1, Len(s) - 1))
  ELSE s

\* The k-digit fraction f without its trailing zeros, as characters.
FracStr(f, k) == StripZeros(PadDigits(f, k))

StrERROR == <<"E", "R", "R", "O", "R">>
StrZero == <<"0">>

\* The text of the magnitude ip + f/10^6 (0 <= f < 10^6).
FixedMagnitude(ip, f) ==
  IF f = 0 THEN IntStr(ip) ELSE IntStr(ip) \o <<".">> \o FracStr(f, 6)

FixedSigned(neg, ip, f) ==
  IF neg /\ (ip # 0 \/ f # 0) THEN <<"-">> \o FixedMagnitude(ip, f)
  ELSE FixedMagnitude(ip, f)

\* fd = <<the first six fractional digits, the remainder after them>> of a
\* magnitude with integer part ip and denominator d: rounded half up.
FixedRounded(neg, ip, fd, d) ==
  IF 2 * fd[2] >= d
  THEN (IF fd[1] + 1 = 1000000 THEN FixedSigned(neg, ip + 1, 0)
        ELSE FixedSigned(neg, ip, fd[1] + 1))
  ELSE FixedSigned(neg, ip, fd[1])

\* formatNumber(num) with the thousands separators removed, as its callers
\* do (.replace(/,/g, '')): toFixed(6) rounds half away from zero, then the
\* trailing zeros of the fraction are dropped.  The exponential branches
\* (|num| < 1e-10, |num| >= 1e12) lie outside the model's numbers.
formatNumberPlain(num) ==
  IF ~IsFinite(num) THEN StrERROR
  ELSE FixedRounded(num[1] < 0, IntAbs(num[1]) \div num[2],
                    FracDigits(IntAbs(num[1]) % num[2], num[2], 6, 0), num[2])

\* The text of the magnitude ip + (hi * 10^8 + lo) / 10^16.
DecimalMagnitude(ip, fs) ==
  IF fs = <<>> THEN IntStr(ip) ELSE IntStr(ip) \o <<".">> \o fs

DecimalDigits(hi, d) ==
  StripZeros(PadDigits(hi[1], 8) \o PadDigits(FracDigits(hi[2], d, 8, 0)[1], 8))

\* String(value) of a finite number: the decimal expansion, cut after 16
\* fractional digits.
NumToString(num) ==
  IF num[1] < 0
  THEN <<"-">> \o DecimalMagnitude((-num[1]) \div num[2],
                  DecimalDigits(FracDigits((-num[1]) % num[2], num[2], 8, 0), num[2]))
  ELSE DecimalMagnitude(num[1] \div num[2],
                  DecimalDigits(FracDigits(num[1] % num[2], num[2], 8, 0), num[2]))

IndexOfDot(s) ==
  IF \E k \in 1..Len(s) : s[k] = "."
  THEN CHOOSE k \in 1..Len(s) : s[k] = "." /\ \A j \in 1..(k - 1) : s[j] # "."
  ELSE 0

\* toLocaleString('en-US') on the digits of an integer part: groups of three.
RECURSIVE GroupThousands(_)
GroupThousands(ds) ==
  IF Len(ds) <= 3 THEN ds
  ELSE GroupThousands(SubSeq(ds, 1, Len(ds) - 3)) \o <<",">>
        \o SubSeq(ds, Len(ds) - 2, Len(ds))

\* The unsigned text t with its integer part grouped; dot is the index of
\* its '.', or 0.
GroupedAt(t, dot) ==
  IF dot = 0 THEN GroupThousands(t)
  ELSE GroupThousands(SubSeq(t, 1, dot - 1)) \o SubSeq(t, dot, Len(t))

Grouped(t) ==
  IF t = StrERROR THEN t
  ELSE IF Head(t) = "-" THEN <<"-">> \o GroupedAt(Tail(t), IndexOfDot(Tail(t)))
  ELSE GroupedAt(t, IndexOfDot(t))

\* formatNumber(num) as the messages show it.
formatNumber(num) == Grouped(formatNumberPlain(num))

\* The value of a run of digits, as an integer.
RECURSIVE DigitsVal(_, _)
DigitsVal(s, acc) ==
  IF s = <<>> THEN acc ELSE DigitsVal(Tail(s), acc * 10 + DigitVal(Head(s)))

AllDigits(s) == \A k \in 1..Len(s) : IsDigit(s[k])

\* The value of the digits ints before and frac after the '.'.  The digits
\* of frac after the ninth lie below the resolution of the model's numbers
\* and are cut.
ParseParts(ints, frac) ==
  IF Len(ints) + Len(frac) > 0 /\ AllDigits(ints) /\ AllDigits(frac)
  THEN RAdd(Mk(DigitsVal(ints, 0), 1),
            IF Len(frac) > 9 THEN Mk(DigitsVal(SubSeq(frac, 1, 9), 0), Pow10(9))
            ELSE Mk(DigitsVal(frac, 0), Pow10(Len(frac))))
  ELSE NaN

ParseUnsigned(body, dot) ==
  IF dot = 0 THEN ParseParts(body, <<>>)
  ELSE ParseParts(SubSeq(body, 1, dot - 1), SubSeq(body, dot + 1, Len(body)))

\* parseFloat(s) for the strings the entry can hold: an optional '-', digits
\* with at most one '.', or text that does not start a number (NaN).
ParseFloat(s) ==
  IF Len(s) > 0 /\ s[1] = "-"
  THEN RNeg(ParseUnsigned(Tail(s), IndexOfDot(Tail(s))))
  ELSE ParseUnsigned(s, IndexOfDot(s))

\* ---- TVM math ----

Hundred == <<100, 1>>

\* getPeriodicRate(nominalRate, cy, py); cy and py are integers.
getPeriodicRate(nominalRate, cy, py) ==
  IF cy = py THEN RDiv(RDiv(nominalRate, Hundred), FromInt(py))
  ELSE RSub(MathPow(RAdd(One, RDiv(RDiv(nominalRate, Hundred), FromInt(cy))),
                    RDiv(FromInt(cy), FromInt(py))), One)

\* return isBegin ? factor * (1 + i) : factor
annuityFactorTimed(factor, i, isBegin) ==
  IF isBegin THEN RMul(factor, RAdd(One, i)) ELSE factor

\* A variant of annuityFactor without the zero-rate branch.
annuityFactorGeometric(i, n, isBegin) ==
  annuityFactorTimed(RDiv(RSub(MathPow(RAdd(One, i), n), One), i), i, isBegin)

annuityFactor(i, n, isBegin) ==
  IF AbsBelowTol(i) THEN n
  ELSE annuityFactorTimed(RDiv(RSub(MathPow(RAdd(One, i), n), One), i), i, isBegin)

presentValueFactor(i, n) == MathPow(RAdd(One, i), RNeg(n))

solveFV(n, i, pv, pmt, isBegin) ==
  RNeg(RAdd(RMul(pv, MathPow(RAdd(One, i), n)),
            RMul(pmt, annuityFactor(i, n, isBegin))))

\* A variant of solvePV that leaves the amount at its future value.
solvePVUndiscounted(n, i, pmt, fv, isBegin) ==
  RNeg(RAdd(RMul(pmt, annuityFactor(i, n, isBegin)), fv))

\* A variant of solvePV that compounds where solvePV discounts.
solvePVCompounded(n, i, pmt, fv, isBegin) ==
  RMul(RNeg(RAdd(RMul(pmt, annuityFactor(i, n, isBegin)), fv)),
       MathPow(RAdd(One, i), n))

solvePV(n, i, pmt, fv, isBegin) ==
  RDiv(RNeg(RAdd(RMul(pmt, annuityFactor(i, n, isBegin)), fv)),
       MathPow(RAdd(One, i), n))

\* A variant of solvePMTFrom that answers 0 on a zero annuity factor.
solvePMTFromNoPayment(pv, fv, fvf, af) ==
  IF AbsBelowTol(af) THEN Zero
  ELSE RDiv(RNeg(RAdd(RMul(pv, fvf), fv)), af)

\* solvePMT once fvf and af are computed.
solvePMTFrom(pv, fv, fvf, af) ==
  IF AbsBelowTol(af) THEN NaN
  ELSE RDiv(RNeg(RAdd(RMul(pv, fvf), fv)), af)

solvePMT(n, i, pv, fv, isBegin) ==
  solvePMTFrom(pv, fv, MathPow(RAdd(One, i), n), annuityFactor(i, n, isBegin))

\* The objective f of solveNNumeric.
solveNNumericF(i, pv, pmt, fv, isBegin, n) ==
  IF RLe(n, Zero) THEN RAdd(pv, fv)
  ELSE RAdd(RAdd(RMul(pv, MathPow(RAdd(One, i), n)),
                 RMul(pmt, annuityFactor(i, n, isBegin))), fv)

\* The probe loop of solveNNumeric: for (test = 1; test <= 10000; test *= 10);
\* the new upper bound, or hi when no probe changes sign.
RECURSIVE solveNNumericProbe(_, _, _, _, _, _, _, _)
solveNNumericProbe(i, pv, pmt, fv, isBegin, fLo, hi, test) ==
  IF test > 10000 THEN hi
  ELSE IF RLt(RMul(solveNNumericF(i, pv, pmt, fv, isBegin, FromInt(test)), fLo), Zero)
       THEN FromInt(test)
  ELSE solveNNumericProbe(i, pv, pmt, fv, isBegin, fLo, hi, test * 10)

\* The loops of the solvers run up to 100 iterations.  Each is written as
\* one iteration (a step on the loop's variables, with the flag done and the
\* value returned once the loop has returned or broken) run in chunks of
\* ChunkLen iterations.  An iteration that leaves the loop's variables
\* unchanged is repeated unchanged by every later one, so the loop's result
\* is decided there and the step ends the loop with it.
ChunkLen == 10
Min(a, b) == IF a < b THEN a ELSE b

\* One iteration of the bisection of solveNNumeric on
\* <<lo, hi, done, result, f(lo)>>; the value f(lo), which the loop evaluates
\* in every iteration, is carried along with lo.  solveNNumericNext is the
\* body of the iteration after mid and fMid are computed.
solveNNumericNext(b, mid, fMid) ==
  IF AbsBelowTol(fMid) THEN <<b[1], b[2], TRUE, mid, b[5]>>
  ELSE IF RLt(RMul(b[5], fMid), Zero)
       THEN (IF mid = b[2] THEN <<b[1], b[2], TRUE, mid, b[5]>>
             ELSE <<b[1], mid, FALSE, Null, b[5]>>)
  ELSE (IF mid = b[1] THEN <<b[1], b[2], TRUE, mid, b[5]>>
        ELSE <<mid, b[2], FALSE, Null, fMid>>)

solveNNumericAt(i, pv, pmt, fv, isBegin, b, mid) ==
  solveNNumericNext(b, mid, solveNNumericF(i, pv, pmt, fv, isBegin, mid))

solveNNumericStep(i, pv, pmt, fv, isBegin, b) ==
  solveNNumericAt(i, pv, pmt, fv, isBegin, b, RDiv(RAdd(b[1], b[2]), Two))

RECURSIVE solveNNumericRun(_, _, _, _, _, _, _)
solveNNumericRun(i, pv, pmt, fv, isBegin, b, k) ==
  IF k <= 0 \/ b[3] THEN b
  ELSE solveNNumericRun(i, pv, pmt, fv, isBegin,
                        solveNNumericStep(i, pv, pmt, fv, isBegin, b), k - 1)

\* for (iter = 0; iter < 100; iter++) { ... } return (lo + hi) / 2
RECURSIVE solveNNumericBisect(_, _, _, _, _, _, _)
solveNNumericBisect(i, pv, pmt, fv, isBegin, b, left) ==
  IF b[3] THEN b[4]
  ELSE IF left <= 0 THEN RDiv(RAdd(b[1], b[2]), Two)
  ELSE solveNNumericBisect(i, pv, pmt, fv, isBegin,
         solveNNumericRun(i, pv, pmt, fv, isBegin, b, Min(ChunkLen, left)),
         left - ChunkLen)

\* The bounds that solveNNumeric bisects between, with f(lo):
\* <<0.01, 1000, f(0.01)>>, or the first probe whose sign differs from f(lo)
\* in place of 1000.
solveNNumericBounds(i, pv, pmt, fv, isBegin, fLo, fHi) ==
  IF RGt(RMul(fLo, fHi), Zero)
  THEN << <<1, 100>>,
          solveNNumericProbe(i, pv, pmt, fv, isBegin, fLo, <<1000, 1>>, 1), fLo>>
  ELSE << <<1, 100>>, <<1000, 1>>, fLo>>

solveNNumericBracket(i, pv, pmt, fv, isBegin) ==
  solveNNumericBounds(i, pv, pmt, fv, isBegin,
                      solveNNumericF(i, pv, pmt, fv, isBegin, <<1, 100>>),
                      solveNNumericF(i, pv, pmt, fv, isBegin, <<1000, 1>>))

solveNNumericFrom(i, pv, pmt, fv, isBegin, b) ==
  solveNNumericBisect(i, pv, pmt, fv, isBegin, <<b[1], b[2], FALSE, Null, b[3]>>, 100)

solveNNumeric(i, pv, pmt, fv, isBegin) ==
  solveNNumericFrom(i, pv, pmt, fv, isBegin,
                    solveNNumericBracket(i, pv, pmt, fv, isBegin))

\* A variant of solveNLog that takes the logarithm of the magnitude.
solveNLogMagnitude(ratio, i) ==
  IF ratio = Zero THEN NaN
  ELSE RDiv(MathLog(RAbs(ratio)), MathLog(RAdd(One, i)))

\* return Math.log(ratio) / Math.log(1 + i), NaN when ratio <= 0
solveNLog(ratio, i) ==
  IF RLe(ratio, Zero) THEN NaN
  ELSE RDiv(MathLog(ratio), MathLog(RAdd(One, i)))

\* A variant of solveN that drops the sign at zero rate.
solveNUnsigned(i, pv, pmt, fv, isBegin) ==
  IF AbsBelowTol(i)
  THEN (IF AbsBelowTol(pmt) THEN NaN ELSE RDiv(RAdd(pv, fv), pmt))
  ELSE IF AbsBelowTol(pmt)
       THEN (IF AbsBelowTol(pv) THEN NaN ELSE solveNLog(RDiv(RNeg(fv), pv), i))
  ELSE solveNNumeric(i, pv, pmt, fv, isBegin)

solveN(i, pv, pmt, fv, isBegin) ==
  IF AbsBelowTol(i)
  THEN (IF AbsBelowTol(pmt) THEN NaN ELSE RDiv(RNeg(RAdd(pv, fv)), pmt))
  ELSE IF AbsBelowTol(pmt)
       THEN (IF AbsBelowTol(pv) THEN NaN ELSE solveNLog(RDiv(RNeg(fv), pv), i))
  ELSE solveNNumeric(i, pv, pmt, fv, isBegin)

\* The objective f and its derivative df of solveIY, in the periodic rate i.
solveIYF(n, pv, pmt, fv, isBegin, i) ==
  RAdd(RAdd(RMul(pv, MathPow(RAdd(One, i), n)),
            RMul(pmt, annuityFactor(i, n, isBegin))), fv)

\* dAfBgn = isBegin ? (dAf * onePlusI + af) : dAf
solveIYDfBgn(isBegin, dAf, onePlusI, af) ==
  IF isBegin THEN RAdd(RMul(dAf, onePlusI), af) ELSE dAf

\* df(i) for i away from 0, from onePlusI = 1 + i, onePlusIN = (1 + i)^n and
\* pw = (1 + i)^(n - 1).
solveIYDfFrom(n, pv, pmt, isBegin, i, onePlusI, onePlusIN, pw) ==
  RAdd(RMul(pv, RMul(n, pw)),
       RMul(pmt, solveIYDfBgn(isBegin,
                   RDiv(RSub(RMul(RMul(n, pw), i), RSub(onePlusIN, One)),
                        RMul(i, i)),
                   onePlusI,
                   RDiv(RSub(onePlusIN, One), i))))

solveIYDf(n, pv, pmt, isBegin, i) ==
  IF AbsBelowTol(i)
  THEN RAdd(RMul(pv, n), RDiv(RMul(RMul(pmt, n), RAdd(n, One)), Two))
  ELSE solveIYDfFrom(n, pv, pmt, isBegin, i, RAdd(One, i),
                     MathPow(RAdd(One, i), n), MathPow(RAdd(One, i), RSub(n, One)))

\* npvFunc(r) and npvDerivative(r) of calculateIRR over the cash flows cfs
\* (cfs[t + 1] is CF t).
RECURSIVE npvLoop(_, _, _, _)
npvLoop(cfs, r, t, npv) ==
  IF t >= Len(cfs) THEN npv
  ELSE npvLoop(cfs, r, t + 1,
               RAdd(npv, RDiv(cfs[t + 1], MathPow(RAdd(One, r), FromInt(t)))))

npvFunc(cfs, r) == npvLoop(cfs, r, 0, Zero)

RECURSIVE npvDerivLoop(_, _, _, _)
npvDerivLoop(cfs, r, t, deriv) ==
  IF t >= Len(cfs) THEN deriv
  ELSE npvDerivLoop(cfs, r, t + 1,
         RSub(deriv, RDiv(RMul(FromInt(t), cfs[t + 1]),
                          MathPow(RAdd(One, r), FromInt(t + 1)))))

npvDerivative(cfs, r) == npvDerivLoop(cfs, r, 1, Zero)

\* An objective function handed to a bisection: the closure f of solveIY
\* (kind "tvm") or npvFunc of calculateIRR (kind "npv"), as data.
TvmObjective(n, pv, pmt, fv, isBegin) ==
  [kind |-> "tvm", n |-> n, pv |-> pv, pmt |-> pmt, fv |-> fv,
   isBegin |-> isBegin, cfs |-> <<>>]
NpvObjective(cfs) ==
  [kind |-> "npv", n |-> Zero, pv |-> Zero, pmt |-> Zero, fv |-> Zero,
   isBegin |-> FALSE, cfs |-> cfs]
Apply(f, x) ==
  IF f.kind = "tvm" THEN solveIYF(f.n, f.pv, f.pmt, f.fv, f.isBegin, x)
  ELSE npvFunc(f.cfs, x)

\* One iteration of the bisection loop of bisectionSolveI and of
\* bisectionIRR on b = <<lo, hi, fLo, done, result>>; bisectNext is the body
\* of the iteration after mid and fMid are computed.
bisectNext(b, mid, fMid) ==
  IF AbsBelowTol(fMid) THEN <<b[1], b[2], b[3], TRUE, mid>>
  ELSE IF RLt(RMul(b[3], fMid), Zero)
       THEN (IF mid = b[2] THEN <<b[1], b[2], b[3], TRUE, mid>>
             ELSE <<b[1], mid, b[3], FALSE, Null>>)
  ELSE (IF mid = b[1] /\ fMid = b[3] THEN <<b[1], b[2], b[3], TRUE, mid>>
        ELSE <<mid, b[2], fMid, FALSE, Null>>)

bisectAt(f, b, mid) == bisectNext(b, mid, Apply(f, mid))

bisectStep(f, b) == bisectAt(f, b, RDiv(RAdd(b[1], b[2]), Two))

RECURSIVE bisectRun(_, _, _)
bisectRun(f, b, k) ==
  IF k <= 0 \/ b[4] THEN b ELSE bisectRun(f, bisectStep(f, b), k - 1)

\* for (iter = 0; iter < maxIter; iter++) { ... } return (lo + hi) / 2
RECURSIVE bisectLoop(_, _, _)
bisectLoop(f, b, left) ==
  IF b[4] THEN b[5]
  ELSE IF left <= 0 THEN RDiv(RAdd(b[1], b[2]), Two)
  ELSE bisectLoop(f, bisectRun(f, b, Min(ChunkLen, left)), left - ChunkLen)

\* The loop from the bracket br = <<lo, hi, fLo>>.
bisectFrom(f, br, maxIter) ==
  bisectLoop(f, <<br[1], br[2], br[3], FALSE, Null>>, maxIter)

BisectionTestsI == << <<-1, 2>>, Zero, <<1, 100>>, <<1, 10>>, <<1, 2>>, One, <<3, 2>> >>

\* The probe loop of bisectionSolveI over the tests from index k on: the
\* bracket <<lo, hi, fLo>> it ends with.  bisectionSolveITest is the body of
\* the loop for the value test, with fTest = f(test).
RECURSIVE bisectionSolveIProbe(_, _, _, _, _, _)
bisectionSolveITest(f, lo, hi, fLo, fHi, k, test, fTest) ==
  IF RGt(test, lo) /\ RLt(test, hi) /\ RLt(RMul(fTest, fLo), Zero)
  THEN <<lo, test, fLo>>
  ELSE IF RGt(test, lo) /\ RLt(test, hi) /\ RLt(RMul(fTest, fHi), Zero)
  THEN <<test, hi, fTest>>
  ELSE bisectionSolveIProbe(f, lo, hi, fLo, fHi, k + 1)

bisectionSolveIProbe(f, lo, hi, fLo, fHi, k) ==
  IF k > Len(BisectionTestsI) THEN <<lo, hi, fLo>>
  ELSE bisectionSolveITest(f, lo, hi, fLo, fHi, k, BisectionTestsI[k],
                           Apply(f, BisectionTestsI[k]))

bisectionSolveIBounds(f, lo, hi, fLo, fHi) ==
  IF RGt(RMul(fLo, fHi), Zero)
  THEN bisectionSolveIProbe(f, lo, hi, fLo, fHi, 1)
  ELSE <<lo, hi, fLo>>

\* The bracket <<lo, hi, fLo>> that bisectionSolveI bisects.
bisectionSolveIBracket(f, lo, hi) ==
  bisectionSolveIBounds(f, lo, hi, Apply(f, lo), Apply(f, hi))

bisectionSolveI(f, lo, hi, maxIter) ==
  bisectFrom(f, bisectionSolveIBracket(f, lo, hi), maxIter)

RateLo == <<-99, 100>>
RateHi == <<10, 1>>

\* One iteration of the Newton-Raphson loop of solveIY on
\* w = <<i, bestI, bestF, done>>; once done, bestI is the rate the loop
\* leaves.  The pieces, in the order of the loop body:
\* bestF and bestI after `if (Math.abs(fVal) < bestF)`
solveIYBestF(w, fVal) == IF RLt(RAbs(fVal), w[3]) THEN RAbs(fVal) ELSE w[3]
solveIYBestI(w, fVal) == IF RLt(RAbs(fVal), w[3]) THEN w[1] ELSE w[2]

\* if (newI > 10) newI = (i + 10) / 2
solveIYClampHi(i, newI) ==
  IF RGt(newI, RateHi) THEN RDiv(RAdd(i, RateHi), Two) ELSE newI

\* if (newI <= -0.99) newI = i / 2, then the upper clamp
solveIYClamp(i, newI) ==
  solveIYClampHi(i, IF RLe(newI, RateLo) THEN RDiv(i, Two) ELSE newI)

\* the end of the iteration, with the clamped newI
solveIYMove(w, bestI, bestF, newI) ==
  IF AbsBelowTol(RSub(newI, w[1])) THEN <<w[1], newI, bestF, TRUE>>
  ELSE IF <<newI, bestI, bestF>> = <<w[1], w[2], w[3]>>
       THEN <<w[1], bestI, bestF, TRUE>>
  ELSE <<newI, bestI, bestF, FALSE>>

solveIYNext(w, fVal, dfVal) ==
  IF AbsBelowTol(fVal) THEN <<w[1], w[1], w[3], TRUE>>
  ELSE IF AbsBelowTol(dfVal)
       THEN <<w[1], solveIYBestI(w, fVal), solveIYBestF(w, fVal), TRUE>>
  ELSE solveIYMove(w, solveIYBestI(w, fVal), solveIYBestF(w, fVal),
                   solveIYClamp(w[1], RSub(w[1], RDiv(fVal, dfVal))))

solveIYStep(n, pv, pmt, fv, isBegin, w) ==
  solveIYNext(w, solveIYF(n, pv, pmt, fv, isBegin, w[1]),
              solveIYDf(n, pv, pmt, isBegin, w[1]))

RECURSIVE solveIYRun(_, _, _, _, _, _, _)
solveIYRun(n, pv, pmt, fv, isBegin, w, k) ==
  IF k <= 0 \/ w[4] THEN w
  ELSE solveIYRun(n, pv, pmt, fv, isBegin,
                  solveIYStep(n, pv, pmt, fv, isBegin, w), k - 1)

\* for (iter = 0; iter < 50; iter++) { ... }: the rate bestI the loop leaves
RECURSIVE solveIYNewton(_, _, _, _, _, _, _)
solveIYNewton(n, pv, pmt, fv, isBegin, w, left) ==
  IF w[4] \/ left <= 0 THEN w[2]
  ELSE solveIYNewton(n, pv, pmt, fv, isBegin,
         solveIYRun(n, pv, pmt, fv, isBegin, w, Min(ChunkLen, left)),
         left - ChunkLen)

\* The rate bestI that the Newton-Raphson loop of solveIY leaves, from the
\* initial guess 0.05.
solveIYNewtonBest(n, pv, pmt, fv, isBegin) ==
  solveIYNewton(n, pv, pmt, fv, isBegin,
                << <<1, 20>>, <<1, 20>>,
                   RAbs(solveIYF(n, pv, pmt, fv, isBegin, <<1, 20>>)), FALSE>>, 50)

\* if (Math.abs(f(bestI)) > 1e-6): Newton's rate bestI is not kept.
solveIYRejects(n, pv, pmt, fv, isBegin, bestI) ==
  AbsAboveTol(solveIYF(n, pv, pmt, fv, isBegin, bestI))

solveIYFallsBack(n, pv, pmt, fv, isBegin) ==
  solveIYRejects(n, pv, pmt, fv, isBegin, solveIYNewtonBest(n, pv, pmt, fv, isBegin))

solveIYChoose(n, pv, pmt, fv, isBegin, bestI) ==
  IF solveIYRejects(n, pv, pmt, fv, isBegin, bestI)
  THEN bisectionSolveI(TvmObjective(n, pv, pmt, fv, isBegin), RateLo, Two, 100)
  ELSE bestI

\* The periodic rate bestI that solveIY converts.
solveIYBest(n, pv, pmt, fv, isBegin) ==
  solveIYChoose(n, pv, pmt, fv, isBegin, solveIYNewtonBest(n, pv, pmt, fv, isBegin))

\* The nominal annual rate, in percent, of the periodic rate bestI.
solveIYNominal(bestI, cy, py) ==
  IF cy = py THEN RMul(RMul(bestI, FromInt(py)), Hundred)
  ELSE RMul(RMul(FromInt(cy),
                 RSub(MathPow(RAdd(One, bestI), RDiv(FromInt(py), FromInt(cy))),
                      One)),
            Hundred)

solveIY(n, pv, pmt, fv, isBegin, cy, py) ==
  solveIYNominal(solveIYBest(n, pv, pmt, fv, isBegin), cy, py)

\* ---- IRR ----

BisectionTestsIRR == << <<-1, 2>>, Zero, <<1, 100>>, <<1, 10>>, <<1, 2>>, One >>

\* The probe loop of bisectionIRR over the tests from index k on: the bracket
\* <<lo, hi, fLo>> it ends with.  bisectionIRRTest is the body of the loop
\* for the value test, with fTest = f(test).
RECURSIVE bisectionIRRProbe(_, _, _, _, _, _)
bisectionIRRTest(f, lo, hi, fLo, fHi, k, test, fTest) ==
  IF RLt(RMul(fTest, fLo), Zero) THEN <<lo, test, fLo>>
  ELSE IF RLt(RMul(fTest, fHi), Zero) THEN <<test, hi, fTest>>
  ELSE bisectionIRRProbe(f, lo, hi, fLo, fHi, k + 1)

bisectionIRRProbe(f, lo, hi, fLo, fHi, k) ==
  IF k > Len(BisectionTestsIRR) THEN <<lo, hi, fLo>>
  ELSE bisectionIRRTest(f, lo, hi, fLo, fHi, k, BisectionTestsIRR[k],
                        Apply(f, BisectionTestsIRR[k]))

bisectionIRRBounds(f, lo, hi, fLo, fHi) ==
  IF RGt(RMul(fLo, fHi), Zero)
  THEN bisectionIRRProbe(f, lo, hi, fLo, fHi, 1)
  ELSE <<lo, hi, fLo>>

\* The bracket <<lo, hi, fLo>> that bisectionIRR bisects.
bisectionIRRBracket(f, lo, hi) ==
  bisectionIRRBounds(f, lo, hi, Apply(f, lo), Apply(f, hi))

bisectionIRR(f, lo, hi, maxIter) ==
  bisectFrom(f, bisectionIRRBracket(f, lo, hi), maxIter)

\* One iteration of the Newton-Raphson loop of calculateIRR on
\* w = <<r, bestR, bestNPV, done>>; once done, bestR is the rate the loop
\* leaves.  The pieces, in the order of the loop body:
\* bestNPV and bestR after `if (Math.abs(npv) < bestNPV)`
irrBestNPV(w, npv) == IF RLt(RAbs(npv), w[3]) THEN RAbs(npv) ELSE w[3]
irrBestRate(w, npv) == IF RLt(RAbs(npv), w[3]) THEN w[1] ELSE w[2]

\* if (newR > 10) newR = (r + 10) / 2
irrClampHi(r, newR) ==
  IF RGt(newR, RateHi) THEN RDiv(RAdd(r, RateHi), Two) ELSE newR

\* if (newR <= -0.99) newR = (r - 0.99) / 2, then the upper clamp
irrClamp(r, newR) ==
  irrClampHi(r, IF RLe(newR, RateLo) THEN RDiv(RAdd(r, RateLo), Two) ELSE newR)

\* the end of the iteration, with the clamped newR
irrMove(w, bestR, bestNPV, newR) ==
  IF AbsBelowTol(RSub(newR, w[1])) THEN <<w[1], newR, bestNPV, TRUE>>
  ELSE IF <<newR, bestR, bestNPV>> = <<w[1], w[2], w[3]>>
       THEN <<w[1], bestR, bestNPV, TRUE>>
  ELSE <<newR, bestR, bestNPV, FALSE>>

irrNext(w, npv, deriv) ==
  IF AbsBelowTol(npv) THEN <<w[1], w[1], w[3], TRUE>>
  ELSE IF AbsBelowTol(deriv)
       THEN <<w[1], irrBestRate(w, npv), irrBestNPV(w, npv), TRUE>>
  ELSE irrMove(w, irrBestRate(w, npv), irrBestNPV(w, npv),
               irrClamp(w[1], RSub(w[1], RDiv(npv, deriv))))

irrStep(cfs, w) == irrNext(w, npvFunc(cfs, w[1]), npvDerivative(cfs, w[1]))

RECURSIVE irrRun(_, _, _)
irrRun(cfs, w, k) ==
  IF k <= 0 \/ w[4] THEN w ELSE irrRun(cfs, irrStep(cfs, w), k - 1)

\* for (iter = 0; iter < 100; iter++) { ... }: the rate bestR the loop leaves
RECURSIVE irrNewton(_, _, _)
irrNewton(cfs, w, left) ==
  IF w[4] \/ left <= 0 THEN w[2]
  ELSE irrNewton(cfs, irrRun(cfs, w, Min(ChunkLen, left)), left - ChunkLen)

\* The rate bestR that the Newton-Raphson loop of calculateIRR leaves, from
\* the initial guess 0.1.
irrNewtonBest(cfs) ==
  irrNewton(cfs, << <<1, 10>>, <<1, 10>>, RAbs(npvFunc(cfs, <<1, 10>>)), FALSE>>, 100)

\* if (Math.abs(npvFunc(bestR)) > 1e-6): Newton's rate bestR is not kept.
irrRejects(cfs, bestR) == AbsAboveTol(npvFunc(cfs, bestR))

irrFallsBack(cfs) == irrRejects(cfs, irrNewtonBest(cfs))

irrChoose(cfs, bestR) ==
  IF irrRejects(cfs, bestR) THEN bisectionIRR(NpvObjective(cfs), RateLo, Two, 100)
  ELSE bestR

\* The periodic rate bestR that calculateIRR converts and stores.
irrBestR(cfs) == irrChoose(cfs, irrNewtonBest(cfs))

\* ---- Amortization ----

\* A variant of the END branch that books the whole payment as principal.
amortEndAllPrincipal(pmt, inRange, acc, interestPayment) ==
  << IF inRange THEN RAdd(acc[1], RNeg(pmt)) ELSE acc[1],
     IF inRange THEN RAdd(acc[2], interestPayment) ELSE acc[2],
     RAdd(acc[3], RAdd(interestPayment, pmt)) >>

\* One period of the loop of calculateAmort in END timing, on
\* acc = <<totalPrincipal, totalInterest, balance>>, with
\* interestPayment = balance * i.
amortEnd(pmt, inRange, acc, interestPayment) ==
  << IF inRange THEN RAdd(acc[1], RSub(RNeg(pmt), interestPayment)) ELSE acc[1],
     IF inRange THEN RAdd(acc[2], interestPayment) ELSE acc[2],
     RAdd(acc[3], RAdd(interestPayment, pmt)) >>

\* A variant of the BGN branch that adds every period to the totals.
amortBgnEveryPeriod(pmt, inRange, acc, balance, interestPayment) ==
  << RAdd(acc[1], RNeg(pmt)), RAdd(acc[2], interestPayment),
     RAdd(balance, interestPayment) >>

\* One period in BGN timing, with balance = the balance after the payment
\* and interestPayment = balance * i.
amortBgn(pmt, inRange, acc, balance, interestPayment) ==
  << IF inRange THEN RAdd(acc[1], RNeg(pmt)) ELSE acc[1],
     IF inRange THEN RAdd(acc[2], interestPayment) ELSE acc[2],
     RAdd(balance, interestPayment) >>

amortBgnPaid(pmt, i, inRange, acc, balance) ==
  amortBgn(pmt, inRange, acc, balance, RMul(balance, i))

amortPeriod(pmt, i, isBegin, inRange, acc) ==
  IF isBegin THEN amortBgnPaid(pmt, i, inRange, acc, RAdd(acc[3], RNeg(pmt)))
  ELSE amortEnd(pmt, inRange, acc, RMul(acc[3], i))

\* The loop of calculateAmort from period on.
RECURSIVE amortLoop(_, _, _, _, _, _, _)
amortLoop(pmt, i, isBegin, p1, p2, period, acc) ==
  IF period > p2 THEN acc
  ELSE amortLoop(pmt, i, isBegin, p1, p2, period + 1,
                 amortPeriod(pmt, i, isBegin, period >= p1, acc))

\* The amortResults that calculateAmort computes from complete registers:
\* <<principal, interest, balance>>.
amortize(iy, pv, pmt, cy, py, isBegin, p1, p2) ==
  amortLoop(pmt, getPeriodicRate(iy, cy, py), isBegin, p1, p2, 1, <<Zero, Zero, pv>>)

\* ---- The calculator ----

\* state is the object `state` of app.js; message is the text and class of
\* the message area that showMessage and clearMessage write; keysLeft is the
\* number of keys still to be pressed, so that every key sequence of up to
\* MaxPresses keys is explored; call names the handler that ran last and,
\* for a function applied on its own, holds its arguments and its result.
VARIABLES state, message, keysLeft, call

vars == <<state, message, keysLeft, call>>

\* The keys explored, and the length of the key sequences and of the entry.
Digits == {"0", "2"}
MaxPresses == 7
MaxEntryDigits == 2
EntryLimit == 12

TvmVars == <<"N", "IY", "PV", "PMT", "FV">>
TvmVarSet == {TvmVars[k] : k \in 1..5}

NoMessage == [text |-> <<>>, type |-> ""]
NoCall == [fn |-> "none"]

InitialState ==
  [N |-> Null, IY |-> Null, PV |-> Null, PMT |-> Null, FV |-> Null,
   CY |-> 12, PY |-> 12, BGN |-> FALSE,
   entry |-> StrZero, isNewEntry |-> TRUE, selectedVar |-> "null",
   memory |-> Zero, lastComputed |-> Null, lastComputedVar |-> "null",
   lastClearTime |-> 0, rclMode |-> FALSE,
   operator |-> "null", operand |-> Null,
   mode |-> "tvm",
   cashFlows |-> <<Zero>>, cfIndex |-> 0, cfDiscountRate |-> Null,
   amortP1 |-> 1, amortP2 |-> 1, amortResults |-> Null]

\* The handlers below map a machine m = [st, msg] (the state object and the
\* message area) to the machine they leave.
Machine == [st |-> state, msg |-> message]

showMessage(m, text, type) == [m EXCEPT !.msg = [text |-> text, type |-> type]]
clearMessage(m) == [m EXCEPT !.msg = NoMessage]

\* The name a message shows for a variable: varName === 'IY' ? 'I/Y' : varName
ShownName(varName) == IF varName = "IY" THEN "I/Y" ELSE varName

\* entry.replace(/[^0-9]/g, '').length
CountDigits(s) == Cardinality({k \in 1..Len(s) : IsDigit(s[k])})

appendDigit(m, digit) ==
  LET m1 == [clearMessage(m) EXCEPT !.st.rclMode = FALSE]
  IN  IF m1.st.isNewEntry
      THEN [m1 EXCEPT !.st.entry = IF digit = "." THEN <<"0", ".">> ELSE <<digit>>,
                      !.st.isNewEntry = FALSE]
      ELSE IF digit = "." /\ IndexOfDot(m1.st.entry) # 0 THEN m1
      ELSE IF CountDigits(m1.st.entry) >= EntryLimit THEN m1
      ELSE [m1 EXCEPT !.st.entry = Append(@, digit)]

negateEntry(m) ==
  IF m.st.entry = StrZero THEN m
  ELSE IF Head(m.st.entry) = "-" THEN [m EXCEPT !.st.entry = Tail(@)]
  ELSE [m EXCEPT !.st.entry = <<"-">> \o @]

\* v || 0 for a number v
OrZero(v) == IF IsNaN(v) THEN Zero ELSE v

\* parseFloat(state.entry) || 0
getEntryValue(st) == OrZero(ParseFloat(st.entry))

\* The end of storeVariable: the entry shows the value stored.
storeVariableDone(m, value) ==
  [m EXCEPT !.st.entry = formatNumberPlain(value), !.st.isNewEntry = TRUE]

\* value > 0 && value <= 365
storeVariableInRange(value) == RGt(value, Zero) /\ RLe(value, <<365, 1>>)

\* storeVariable after clearMessage and `const value = getEntryValue()`.
storeVariableValue(m, varName, value) ==
  IF varName \in TvmVarSet
  THEN storeVariableDone([m EXCEPT !.st[varName] = value,
                                   !.st.selectedVar = varName,
                                   !.st.lastComputedVar =
                                      IF @ = varName THEN "null" ELSE @], value)
  ELSE IF varName = "CY"
  THEN (IF storeVariableInRange(value)
        THEN storeVariableDone([m EXCEPT !.st.CY = RoundInt(value)], value)
        ELSE showMessage(m, <<"C/Y must be 1-365">>, "error"))
  ELSE IF varName = "PY"
  THEN (IF storeVariableInRange(value)
        THEN storeVariableDone([m EXCEPT !.st.PY = RoundInt(value)], value)
        ELSE showMessage(m, <<"P/Y must be 1-365">>, "error"))
  ELSE storeVariableDone(m, value)

storeVariable(m, varName) ==
  storeVariableValue([clearMessage(m) EXCEPT !.st.rclMode = FALSE], varName,
                     getEntryValue(m.st))

\* String(state[varName]) for a register or a setting
ValueString(st, varName) ==
  IF varName \in {"CY", "PY"} THEN NumToString(FromInt(st[varName]))
  ELSE NumToString(st[varName])

selectVariable(m, varName) ==
  [m EXCEPT !.st.selectedVar = varName,
            !.st.entry = IF varName \in TvmVarSet /\ m.st[varName] = Null
                         THEN StrZero ELSE ValueString(m.st, varName),
            !.st.isNewEntry = TRUE]

recallVariable(m, varName) ==
  LET isSet == ~(varName \in TvmVarSet /\ m.st[varName] = Null)
      m1 == IF isSet
            THEN showMessage([m EXCEPT !.st.entry = ValueString(m.st, varName),
                                       !.st.isNewEntry = TRUE],
                             <<"Recalled ", ShownName(varName)>>, "success")
            ELSE showMessage(m, <<ShownName(varName), " not set">>, "error")
  IN  [m1 EXCEPT !.st.rclMode = FALSE]

\* handleKeyClick on a key that carries data-var
varKey(m, varName) ==
  IF m.st.rclMode THEN recallVariable(m, varName)
  ELSE IF m.st.isNewEntry /\ m.st.entry = StrZero THEN selectVariable(m, varName)
  ELSE storeVariable(m, varName)

\* ---- CPT ----

\* The registers of st that are null: tvmVars.filter(v => state[v] === null)
blankVars(st) == {v \in TvmVarSet : st[v] = Null}

\* The switch of compute for the one blank register solveFor, with the
\* periodic rate i (not used when solveFor is I/Y).
solverSwitch(st, solveFor, i) ==
  CASE solveFor = "FV"  -> solveFV(st.N, i, st.PV, st.PMT, st.BGN)
    [] solveFor = "PV"  -> solvePV(st.N, i, st.PMT, st.FV, st.BGN)
    [] solveFor = "PMT" -> solvePMT(st.N, i, st.PV, st.FV, st.BGN)
    [] solveFor = "N"   -> solveN(i, st.PV, st.PMT, st.FV, st.BGN)
    [] solveFor = "IY"  -> solveIY(st.N, st.PV, st.PMT, st.FV, st.BGN, st.CY, st.PY)

\* The result of the switch of compute.
solverResult(st, solveFor) ==
  solverSwitch(st, solveFor, getPeriodicRate(st.IY, st.CY, st.PY))

\* A variant of compute that stores whatever the solver returns.
resultRefusedNever(result) == FALSE
\* if (!isFinite(result) || isNaN(result)): the result is not stored.
resultRefused(result) == ~IsFinite(result)

\* A variant of compute that drops the result instead of storing it.
computeStoreNothing(m, solveFor, result) == m

\* A variant of computeStore that also returns the amortization range to
\* period 1.
computeStoreFirstPeriod(m, solveFor, result) ==
  showMessage([m EXCEPT !.st[solveFor] = result,
                        !.st.lastComputed = result,
                        !.st.lastComputedVar = solveFor,
                        !.st.entry = formatNumberPlain(result),
                        !.st.selectedVar = solveFor,
                        !.st.isNewEntry = TRUE,
                        !.st.amortP1 = 1,
                        !.st.amortP2 = 1],
              <<ShownName(solveFor), " = ">> \o formatNumber(result), "success")

\* The block "Store result" of compute.
computeStore(m, solveFor, result) ==
  showMessage([m EXCEPT !.st[solveFor] = result,
                        !.st.lastComputed = result,
                        !.st.lastComputedVar = solveFor,
                        !.st.entry = formatNumberPlain(result),
                        !.st.selectedVar = solveFor,
                        !.st.isNewEntry = TRUE],
              <<ShownName(solveFor), " = ">> \o formatNumber(result), "success")

\* The end of compute, with the result of the switch.
computeResult(m, solveFor, result) ==
  IF resultRefused(result)
  THEN showMessage(m, <<"No solution found">>, "error")
  ELSE computeStore(m, solveFor, result)

\* compute on the one blank register solveFor
computeSolve(m, solveFor) ==
  computeResult(m, solveFor, solverResult(m.st, solveFor))

\* A variant of compute that solves for FV when every register is set.
computeBlankSolvesFV(m, blank) ==
  IF blank = {} THEN computeSolve(m, "FV")
  ELSE IF Cardinality(blank) > 1
  THEN showMessage(m, <<"SET MORE VALUES">>, "error")
  ELSE computeSolve(m, CHOOSE v \in blank : TRUE)

\* compute after clearMessage, with blank = the registers that are null
computeBlank(m, blank) ==
  IF blank = {}
  THEN showMessage(m, <<"All values set - clear one to compute">>, "info")
  ELSE IF Cardinality(blank) > 1
  THEN showMessage(m, <<"SET MORE VALUES">>, "error")
  ELSE computeSolve(m, CHOOSE v \in blank : TRUE)

compute(m) ==
  computeBlank([clearMessage(m) EXCEPT !.st.rclMode = FALSE], blankVars(m.st))

\* ---- Settings, modes, navigation ----

toggleBGN(m) ==
  LET m1 == [m EXCEPT !.st.BGN = ~@]
  IN  showMessage(m1, IF m1.st.BGN THEN <<"Begin mode">> ELSE <<"End mode">>, "info")

setXPY(m) ==
  LET m1 == [m EXCEPT !.st.PY = m.st.CY]
  IN  showMessage(m1, <<"P/Y set to ">> \o IntStr(m1.st.PY), "info")

\* setMode(newMode): the mode; the panels it shows are not part of the state.
setMode(m, newMode) == [m EXCEPT !.st.mode = newMode]

\* A variant of reset that leaves the worksheets as they are.
resetRegisters(m) ==
  showMessage(setMode([m EXCEPT !.st = [InitialState EXCEPT
                                           !.lastClearTime = m.st.lastClearTime,
                                           !.mode = m.st.mode,
                                           !.cashFlows = m.st.cashFlows,
                                           !.cfIndex = m.st.cfIndex,
                                           !.amortP1 = m.st.amortP1,
                                           !.amortP2 = m.st.amortP2,
                                           !.amortResults = m.st.amortResults]],
                      "tvm"),
              <<"Calculator reset">>, "info")

reset(m) ==
  showMessage(setMode([m EXCEPT !.st = [InitialState EXCEPT
                                           !.lastClearTime = m.st.lastClearTime,
                                           !.mode = m.st.mode]], "tvm"),
              <<"Calculator reset">>, "info")

\* A variant of clearTVM that keeps the register FV.
clearTVMKeepsFV(m) ==
  [m EXCEPT !.st.N = Null, !.st.IY = Null, !.st.PV = Null, !.st.PMT = Null,
            !.st.lastComputedVar = "null", !.st.selectedVar = "null"]

clearTVM(m) ==
  [m EXCEPT !.st.N = Null, !.st.IY = Null, !.st.PV = Null, !.st.PMT = Null,
            !.st.FV = Null, !.st.lastComputedVar = "null", !.st.selectedVar = "null"]

\* if (now - state.lastClearTime < 500): the gap of a double press, in ms
DoublePressMs == 500

\* A variant of clearEntry that takes a gap of 500 ms for a double press too.
clearEntryInclusive(m, now) ==
  [(IF now - m.st.lastClearTime <= DoublePressMs
    THEN showMessage(clearTVM(m), <<"TVM cleared">>, "info")
    ELSE [m EXCEPT !.st.entry = StrZero, !.st.isNewEntry = TRUE,
                   !.st.operator = "null", !.st.operand = Null])
     EXCEPT !.st.lastClearTime = now]

\* clearEntry when Date.now() returns now
clearEntry(m, now) ==
  [(IF now - m.st.lastClearTime < DoublePressMs
    THEN showMessage(clearTVM(m), <<"TVM cleared">>, "info")
    ELSE [m EXCEPT !.st.entry = StrZero, !.st.isNewEntry = TRUE,
                   !.st.operator = "null", !.st.operand = Null])
     EXCEPT !.st.lastClearTime = now]

\* vars.indexOf(state.selectedVar), 0-based; -1 when it is not a register
IndexOfVar(v) ==
  IF v \in TvmVarSet THEN (CHOOSE k \in 1..5 : TvmVars[k] = v) - 1 ELSE -1

navigateUp(m) ==
  LET currentIdx == IndexOfVar(m.st.selectedVar)
  IN  IF currentIdx > 0 THEN selectVariable(m, TvmVars[currentIdx])
      ELSE selectVariable(m, TvmVars[5])

navigateDown(m) ==
  LET currentIdx == IndexOfVar(m.st.selectedVar)
  IN  IF currentIdx < 4 /\ currentIdx >= 0 THEN selectVariable(m, TvmVars[currentIdx + 2])
      ELSE selectVariable(m, TvmVars[1])

\* ---- Amortization handlers ----

\* state.N === null || state.IY === null || state.PV === null || state.PMT === null
AmortIncomplete(st) ==
  st.N = Null \/ st.IY = Null \/ st.PV = Null \/ st.PMT = Null

\* The end of calculateAmort, with r = <<totalPrincipal, totalInterest, balance>>.
calculateAmortStore(m, r) ==
  [m EXCEPT !.st.amortResults = r,
            !.st.entry = formatNumberPlain(r[3]),
            !.st.isNewEntry = TRUE]

calculateAmort(m) ==
  IF AmortIncomplete(m.st) THEN [m EXCEPT !.st.amortResults = Null]
  ELSE calculateAmortStore(m, amortize(m.st.IY, m.st.PV, m.st.PMT, m.st.CY, m.st.PY,
                                       m.st.BGN, m.st.amortP1, m.st.amortP2))

\* A variant of enterAmortMode without the test for null registers.
enterAmortModeUnchecked(m) ==
  IF m.st.mode = "amort"
  THEN showMessage(setMode(m, "tvm"), <<"Exited Amortization mode">>, "info")
  ELSE showMessage(setMode(calculateAmort([m EXCEPT !.st.amortP1 = 1,
                                                    !.st.amortP2 = 1]), "amort"),
                   <<"Amortization mode - Use ", "up/down", " to change period">>,
                   "info")

enterAmortMode(m) ==
  IF AmortIncomplete(m.st)
  THEN showMessage(m, <<"Set N, I/Y, PV, PMT first">>, "error")
  ELSE IF m.st.mode = "amort"
  THEN showMessage(setMode(m, "tvm"), <<"Exited Amortization mode">>, "info")
  ELSE showMessage(setMode(calculateAmort([m EXCEPT !.st.amortP1 = 1,
                                                    !.st.amortP2 = 1]), "amort"),
                   <<"Amortization mode - Use ", "up/down", " to change period">>,
                   "info")

\* Math.floor(state.N); Math.floor(null) is 0
MaxN(st) == IF st.N = Null THEN 0 ELSE FloorInt(st.N)

\* The period that navigateAmort moves to.
navigateAmortMove(m, direction) ==
  IF direction = "up"
  THEN (IF m.st.amortP1 > 1
        THEN [m EXCEPT !.st.amortP1 = @ - 1, !.st.amortP2 = m.st.amortP1 - 1]
        ELSE m)
  ELSE (IF m.st.amortP2 < MaxN(m.st)
        THEN [m EXCEPT !.st.amortP1 = m.st.amortP2 + 1, !.st.amortP2 = @ + 1]
        ELSE m)

\* A variant of navigateAmort whose down key extends the range by one period
\* instead of moving it.
navigateAmortExtending(m, direction) ==
  IF m.st.mode # "amort" THEN m
  ELSE IF direction = "down" /\ m.st.amortP2 < MaxN(m.st)
  THEN calculateAmort([m EXCEPT !.st.amortP2 = @ + 1])
  ELSE calculateAmort(navigateAmortMove(m, direction))

navigateAmort(m, direction) ==
  IF m.st.mode # "amort" THEN m
  ELSE calculateAmort(navigateAmortMove(m, direction))

\* setAmortPeriod with value = Math.floor(getEntryValue()), before the
\* final `state.isNewEntry = true`.
setAmortPeriodValue(m, value) ==
  IF value >= 1 /\ value <= MaxN(m.st)
  THEN showMessage(calculateAmort([m EXCEPT !.st.amortP1 = value,
                                            !.st.amortP2 = value]),
                   <<"Period set to P">> \o IntStr(value), "info")
  ELSE showMessage(m, <<"Period must be 1 to ">> \o NumToString(FromInt(MaxN(m.st))),
                   "error")

setAmortPeriod(m) ==
  IF m.st.mode # "amort" THEN m
  ELSE [setAmortPeriodValue(m, FloorInt(getEntryValue(m.st)))
          EXCEPT !.st.isNewEntry = TRUE]

\* ---- Cash-flow handlers ----

enterCFMode(m) ==
  IF m.st.mode = "cf"
  THEN showMessage(setMode(m, "tvm"), <<"Exited Cash Flow mode">>, "info")
  ELSE showMessage([setMode(m, "cf") EXCEPT !.st.cfIndex = 0],
                   <<"Cash Flow mode - Enter CF0">>, "info")

\* The index that navigateCF moves to; DOWN past the end appends a 0.
navigateCFMove(m, direction) ==
  IF direction = "up" /\ m.st.cfIndex > 0
  THEN [m EXCEPT !.st.cfIndex = @ - 1]
  ELSE IF direction = "down"
  THEN (IF m.st.cfIndex < Len(m.st.cashFlows) - 1
        THEN [m EXCEPT !.st.cfIndex = @ + 1]
        ELSE [m EXCEPT !.st.cashFlows = Append(@, Zero),
                       !.st.cfIndex = Len(m.st.cashFlows)])
  ELSE m

\* state.entry = String(state.cashFlows[state.cfIndex])
navigateCFShow(m) ==
  [m EXCEPT !.st.entry = NumToString(m.st.cashFlows[m.st.cfIndex + 1]),
            !.st.isNewEntry = TRUE]

navigateCF(m, direction) ==
  IF m.st.mode # "cf" THEN m
  ELSE navigateCFShow(navigateCFMove(m, direction))

storeCashFlowValue(m, value) ==
  showMessage([m EXCEPT !.st.cashFlows[m.st.cfIndex + 1] = value,
                        !.st.isNewEntry = TRUE],
              <<"CF">> \o IntStr(m.st.cfIndex) \o <<" = ">> \o formatNumber(value),
              "success")

storeCashFlow(m) ==
  IF m.st.mode # "cf" THEN m
  ELSE storeCashFlowValue(m, getEntryValue(m.st))

\* cashFlows.splice(index, 1) and cashFlows.splice(index, 0, 0), index 0-based
SpliceOut(cfs, index) == SubSeq(cfs, 1, index) \o SubSeq(cfs, index + 2, Len(cfs))
SpliceIn(cfs, index) == SubSeq(cfs, 1, index) \o <<Zero>> \o SubSeq(cfs, index + 1, Len(cfs))

\* The branch of deleteCashFlow that deletes: splice, then the index is
\* brought back into the list.
deleteCashFlowAt(m) ==
  showMessage([m EXCEPT !.st.cashFlows = SpliceOut(@, m.st.cfIndex),
                        !.st.cfIndex = IF @ >= Len(m.st.cashFlows) - 1
                                       THEN Len(m.st.cashFlows) - 2 ELSE @],
              <<"Cash flow deleted">>, "info")

\* A variant of deleteCashFlowBranch that deletes CF0 as any other.
deleteCashFlowBranchAny(m) ==
  IF Len(m.st.cashFlows) <= 1
  THEN showMessage([m EXCEPT !.st.cashFlows[1] = Zero], <<"CF0 reset to 0">>, "info")
  ELSE deleteCashFlowAt(m)

deleteCashFlowBranch(m) ==
  IF Len(m.st.cashFlows) <= 1
  THEN showMessage([m EXCEPT !.st.cashFlows[1] = Zero], <<"CF0 reset to 0">>, "info")
  ELSE IF m.st.cfIndex > 0 THEN deleteCashFlowAt(m)
  ELSE showMessage(m, <<"Cannot delete CF0">>, "error")

deleteCashFlow(m) ==
  IF m.st.mode # "cf" THEN m
  ELSE navigateCFShow(deleteCashFlowBranch(m))

\* handleKeyClick, case 'INS'
insertCashFlow(m) ==
  IF m.st.mode # "cf" THEN m
  ELSE showMessage([m EXCEPT !.st.cashFlows = SpliceIn(@, m.st.cfIndex + 1),
                             !.st.cfIndex = @ + 1,
                             !.st.entry = StrZero,
                             !.st.isNewEntry = TRUE],
                   <<"Cash flow inserted">>, "info")

deleteLastChar(m) ==
  IF Len(m.st.entry) <= 1 \/ (Len(m.st.entry) = 2 /\ Head(m.st.entry) = "-")
  THEN [m EXCEPT !.st.entry = StrZero, !.st.isNewEntry = TRUE]
  ELSE [m EXCEPT !.st.entry = SubSeq(@, 1, Len(@) - 1)]

\* handleKeyClick, case 'DEL'
delKey(m) == IF m.st.mode = "cf" THEN deleteCashFlow(m) ELSE deleteLastChar(m)

hasPositive(cfs) == \E k \in 1..Len(cfs) : RGt(cfs[k], Zero)

\* A variant of hasNegative that counts a zero as negative.
hasNegativeOrZero(cfs) == \E k \in 1..Len(cfs) : RLe(cfs[k], Zero)
hasNegative(cfs) == \E k \in 1..Len(cfs) : RLt(cfs[k], Zero)

\* A variant of the loop that discounts the cash flow t over t + 1 periods.
RECURSIVE calculateNPVLoopArrears(_, _, _, _)
calculateNPVLoopArrears(cashFlows, periodicRate, t, npv) ==
  IF t >= Len(cashFlows) THEN npv
  ELSE calculateNPVLoopArrears(cashFlows, periodicRate, t + 1,
         RAdd(npv, RDiv(cashFlows[t + 1],
                        MathPow(RAdd(One, periodicRate), FromInt(t + 1)))))

\* The loop of calculateNPV: npv += cashFlows[t] / (1 + periodicRate)^t
RECURSIVE calculateNPVLoop(_, _, _, _)
calculateNPVLoop(cashFlows, periodicRate, t, npv) ==
  IF t >= Len(cashFlows) THEN npv
  ELSE calculateNPVLoop(cashFlows, periodicRate, t + 1,
         RAdd(npv, RDiv(cashFlows[t + 1],
                        MathPow(RAdd(One, periodicRate), FromInt(t)))))

calculateNPVStore(m, npv) ==
  setMode(showMessage([m EXCEPT !.st.lastComputed = npv,
                                !.st.entry = formatNumberPlain(npv),
                                !.st.isNewEntry = TRUE],
                      <<"NPV = ">> \o formatNumber(npv), "success"), "tvm")

\* calculateNPV once the discount rate is known.
calculateNPVAt(m, rate) ==
  calculateNPVStore(m, calculateNPVLoop(m.st.cashFlows,
                         RDiv(RDiv(rate, Hundred), FromInt(m.st.PY)), 0, Zero))

\* The discount rate: I/Y, or the number being entered, which I/Y then takes.
calculateNPVRate(m) ==
  IF m.st.IY # Null THEN calculateNPVAt(m, m.st.IY)
  ELSE IF ~m.st.isNewEntry /\ m.st.entry # StrZero
  THEN calculateNPVAt([m EXCEPT !.st.IY = getEntryValue(m.st)], getEntryValue(m.st))
  ELSE showMessage(m, <<"Set I/Y first (discount rate)">>, "error")

\* A variant of calculateNPV without the test of the number of cash flows.
calculateNPVAnyLength(m) == calculateNPVRate(m)

calculateNPV(m) ==
  IF Len(m.st.cashFlows) < 2
  THEN showMessage(m, <<"Enter at least 2 cash flows">>, "error")
  ELSE calculateNPVRate(m)

\* The end of calculateIRR, from `state.IY = irrAnnual` on.
calculateIRRStore(m, irrAnnual) ==
  setMode(showMessage([m EXCEPT !.st.IY = irrAnnual,
                                !.st.lastComputed = irrAnnual,
                                !.st.entry = formatNumberPlain(irrAnnual),
                                !.st.isNewEntry = TRUE],
                      <<"IRR = ">> \o formatNumber(irrAnnual) \o <<"%">>,
                      "success"), "tvm")

calculateIRR(m) ==
  IF Len(m.st.cashFlows) < 2
  THEN showMessage(m, <<"Enter at least 2 cash flows">>, "error")
  ELSE IF ~hasPositive(m.st.cashFlows) \/ ~hasNegative(m.st.cashFlows)
  THEN showMessage(m, <<"Need both positive and negative cash flows">>, "error")
  ELSE calculateIRRStore(m, RMul(RMul(irrBestR(m.st.cashFlows), FromInt(m.st.PY)),
                                 Hundred))

\* handleKeyClick on the keys ENTER, UP and DOWN
enterKey(m) ==
  IF m.st.mode = "cf" THEN storeCashFlow(m)
  ELSE IF m.st.mode = "amort" THEN setAmortPeriod(m)
  ELSE IF m.st.selectedVar # "null" THEN storeVariable(m, m.st.selectedVar)
  ELSE m

upKey(m) ==
  IF m.st.mode = "cf" THEN navigateCF(m, "up")
  ELSE IF m.st.mode = "amort" THEN navigateAmort(m, "up")
  ELSE navigateUp(m)

downKey(m) ==
  IF m.st.mode = "cf" THEN navigateCF(m, "down")
  ELSE IF m.st.mode = "amort" THEN navigateAmort(m, "down")
  ELSE navigateDown(m)

\* ---- Actions: one per key ----

Init ==
  state = InitialState /\ message = NoMessage /\ keysLeft = MaxPresses /\ call = NoCall

\* A key is pressed and the handler fn runs.
Pressed(fn) ==
  /\ keysLeft > 0
  /\ keysLeft' = keysLeft - 1
  /\ call' = [fn |-> fn]

\* The handler leaves the machine m.
Leaves(m) == state' = m.st /\ message' = m.msg

\* A digit key; the entry is kept to MaxEntryDigits digits.
AppendDigit ==
  \E digit \in Digits :
    /\ state.isNewEntry \/ CountDigits(state.entry) < MaxEntryDigits
    /\ Pressed("appendDigit") /\ Leaves(appendDigit(Machine, digit))

\* The decimal key: case 'decimal'
AppendDecimal ==
  /\ state.isNewEntry \/ CountDigits(state.entry) < MaxEntryDigits
  /\ Pressed("appendDigit") /\ Leaves(appendDigit(Machine, "."))

NegateEntry == Pressed("negateEntry") /\ Leaves(negateEntry(Machine))

\* The keys N, I/Y, PV, PMT, FV
TvmVarKey ==
  \E varName \in TvmVarSet :
    Pressed("varKey") /\ Leaves(varKey(Machine, varName))

\* The keys C/Y and P/Y
SettingKey ==
  \E varName \in {"CY", "PY"} :
    Pressed("varKey") /\ Leaves(varKey(Machine, varName))

Compute == Pressed("compute") /\ Leaves(compute(Machine))
ToggleBGN == Pressed("toggleBGN") /\ Leaves(toggleBGN(Machine))
SetXPY == Pressed("setXPY") /\ Leaves(setXPY(Machine))
Reset == Pressed("reset") /\ Leaves(reset(Machine))
EnterAmortMode == Pressed("enterAmortMode") /\ Leaves(enterAmortMode(Machine))
EnterCFMode == Pressed("enterCFMode") /\ Leaves(enterCFMode(Machine))
CalculateIRR == Pressed("calculateIRR") /\ Leaves(calculateIRR(Machine))
CalculateNPV == Pressed("calculateNPV") /\ Leaves(calculateNPV(Machine))
EnterKey == Pressed("enterKey") /\ Leaves(enterKey(Machine))
UpKey == Pressed("upKey") /\ Leaves(upKey(Machine))
DownKey == Pressed("downKey") /\ Leaves(downKey(Machine))
DelKey == Pressed("delKey") /\ Leaves(delKey(Machine))
InsKey == Pressed("insertCashFlow") /\ Leaves(insertCashFlow(Machine))

\* The values Date.now() takes at the presses of C/CE: a press follows the
\* previous one by 0, 499, 500 or more milliseconds.
ClearTimes == {1000, 1499, 1500, 2000}

\* The key C/CE: case 'CCE'
ClearEntry ==
  \E now \in ClearTimes :
    /\ now >= state.lastClearTime
    /\ Pressed("clearEntry") /\ Leaves(clearEntry(Machine, now))

\* The timer that showMessage starts: after 3 s the message is cleared if it
\* is still the one shown.
MessageTimeout ==
  /\ message # NoMessage
  /\ message' = NoMessage
  /\ UNCHANGED <<state, keysLeft, call>>

\* The TVM registers, CPT and the payment timing.
Next ==
  \/ AppendDigit
  \/ TvmVarKey
  \/ Compute
  \/ ToggleBGN

Spec == Init /\ [][Next]_vars

\* The same keys, the navigation keys and the AMORT key.
NextAmortMode ==
  \/ AppendDigit
  \/ TvmVarKey
  \/ Compute
  \/ ToggleBGN
  \/ EnterAmortMode
  \/ EnterKey
  \/ UpKey
  \/ DownKey

SpecAmortMode == Init /\ [][NextAmortMode]_vars

\* The settings: digit and decimal entry, the keys C/Y and P/Y, xP/Y, RESET,
\* and the message timer.
NextSettings ==
  \/ AppendDigit
  \/ AppendDecimal
  \/ SettingKey
  \/ SetXPY
  \/ Reset
  \/ MessageTimeout

SpecSettings == Init /\ [][NextSettings]_vars

\* ---- The cash-flow worksheet ----

\* The digit and decimal keys of the text ds, in order.
RECURSIVE KeyDigits(_, _)
KeyDigits(m, ds) ==
  IF ds = <<>> THEN m
  ELSE appendDigit(KeyDigits(m, SubSeq(ds, 1, Len(ds) - 1)), ds[Len(ds)])

\* The keys of a number: its digits, then the negate key when it is negative.
KeyIn(m, str) ==
  IF Head(str) = "-" THEN negateEntry(KeyDigits(m, Tail(str))) ELSE KeyDigits(m, str)

\* The keys that enter the cash flows list[k], list[k + 1], ... from the
\* selected cash flow on: the number, ENTER, and DOWN before the next one.
RECURSIVE enterCashFlows(_, _, _)
enterNextCashFlow(stored, list, k) ==
  IF k = Len(list) THEN stored
  ELSE enterCashFlows(navigateCF(stored, "down"), list, k + 1)

enterCashFlows(m, list, k) ==
  enterNextCashFlow(storeCashFlow(KeyIn(m, list[k])), list, k)

\* The numbers keyed in as cash flows before the exploration starts, and
\* how many of them.
CashFlowEntries == {<<"2">>, <<"-", "2">>}
MaxCashFlows == 3
MaxPressesIRR == 2

CashFlowLists ==
  UNION {[1..len -> CashFlowEntries] : len \in 2..MaxCashFlows}

\* The states after the CF key and the keys that enter a list of cash flows.
StartsIRR(m) ==
  /\ state = m.st
  /\ message = m.msg
  /\ keysLeft = MaxPressesIRR
  /\ call = [fn |-> "enterKey"]

InitIRR ==
  \E list \in CashFlowLists :
    StartsIRR(enterCashFlows(enterCFMode([st |-> InitialState, msg |-> NoMessage]),
                             list, 1))

NextIRR ==
  \/ AppendDigit
  \/ NegateEntry
  \/ EnterCFMode
  \/ EnterKey
  \/ UpKey
  \/ DownKey
  \/ CalculateIRR

SpecIRR == InitIRR /\ [][NextIRR]_vars

\* ---- NPV and IRR on short lists of cash flows ----

\* A discount rate of 0 or 2 is keyed into I/Y or not, up to MaxCashFlowsNPV cash flows
\* are keyed in after the CF key, then up to MaxPressesNPV keys are explored.
MaxCashFlowsNPV == 2
MaxPressesNPV == 2

ShortCashFlowLists ==
  UNION {[1..len -> CashFlowEntries] : len \in 0..MaxCashFlowsNPV}

\* The machine after the keys that enter list, none for the empty list.
enterShortList(m, list) ==
  IF list = <<>> THEN m ELSE enterCashFlows(m, list, 1)

\* The rates keyed in; <<>> stands for no rate.
RateEntries == {<<>>, <<"0">>, <<"2">>}

\* The machine after the digit of rate and the I/Y key, when a rate is keyed in.
enterRate(m, rate) ==
  IF rate = <<>> THEN m ELSE varKey(KeyIn(m, rate), "IY")

StartsNPV(m) ==
  /\ state = m.st
  /\ message = m.msg
  /\ keysLeft = MaxPressesNPV
  /\ call = [fn |-> "enterCFMode"]

InitNPV ==
  \E list \in ShortCashFlowLists, rate \in RateEntries :
    StartsNPV(enterShortList(
                enterCFMode(enterRate([st |-> InitialState, msg |-> NoMessage],
                                      rate)),
                list))

NextNPV ==
  \/ AppendDigit
  \/ TvmVarKey
  \/ EnterCFMode
  \/ EnterKey
  \/ DownKey
  \/ CalculateNPV
  \/ CalculateIRR

SpecNPV == InitNPV /\ [][NextNPV]_vars

\* ---- CPT on its own ----

\* The registers explored: N whole, fractional and negative, the nominal
\* rates 0 %, 600 % and 1200 % (periodic rates 0, 1/2 and 1 at
\* C/Y = P/Y = 12) and whole amounts up to MaxAmount either side of 0.
MaxTvmN == 3
MaxAmount == 2
TvmPeriods == {<<k, 1>> : k \in 0..MaxTvmN} \cup {<<1, 2>>, <<-1, 1>>}
TvmRates == {Zero, <<600, 1>>, <<1200, 1>>}
TvmAmounts == {<<k, 1>> : k \in -MaxAmount..MaxAmount}

StartsTvm(st) ==
  /\ state = st
  /\ message = NoMessage
  /\ keysLeft = 1
  /\ call = NoCall

\* One of N, PV, PMT, FV is null and the other registers are set.
InitTvm ==
  \E n \in TvmPeriods, iy \in TvmRates, pv \in TvmAmounts, pmt \in TvmAmounts,
     fv \in TvmAmounts, isBegin \in BOOLEAN, v \in {"N", "PV", "PMT", "FV"} :
    StartsTvm([InitialState EXCEPT !.N = n, !.IY = iy, !.PV = pv, !.PMT = pmt,
                                   !.FV = fv, !.BGN = isBegin, ![v] = Null])

NextTvm == Compute

SpecTvm == InitTvm /\ [][NextTvm]_vars

\* ---- Round trip: a register of a solved tuple is nulled and solved for ----

\* The five registers set, FV being the value that solveFV gives for the
\* other four.
InitRoundTrip ==
  \E n \in TvmPeriods, iy \in TvmRates, pv \in TvmAmounts, pmt \in TvmAmounts,
     isBegin \in BOOLEAN :
    StartsTvm([InitialState EXCEPT
                 !.N = n, !.IY = iy, !.PV = pv, !.PMT = pmt, !.BGN = isBegin,
                 !.FV = solveFV(n, getPeriodicRate(iy, 12, 12), pv, pmt, isBegin)])

\* The register v is nulled and CPT is pressed.
SolveFor ==
  \E v \in TvmVarSet :
    /\ keysLeft > 0
    /\ keysLeft' = keysLeft - 1
    /\ call' = [fn |-> "compute", solveFor |-> v]
    /\ Leaves(compute([Machine EXCEPT !.st[v] = Null]))

NextRoundTrip == SolveFor

SpecRoundTrip == InitRoundTrip /\ [][NextRoundTrip]_vars

\* ---- The AMORT key on complete and incomplete registers ----

\* The keys vs[1], vs[2], ... pressed in turn.
RECURSIVE pressVarKeys(_, _)
pressVarKeys(m, vs) ==
  IF vs = <<>> THEN m
  ELSE varKey(pressVarKeys(m, SubSeq(vs, 1, Len(vs) - 1)), vs[Len(vs)])

\* The register keys pressed before the exploration starts, after the digit
\* 2: any of N, I/Y, PV, PMT in their order on the keyboard.
MaxPressesAmort == 4
AmortKeyLists ==
  {vs \in UNION {[1..len -> {"N", "IY", "PV", "PMT"}] : len \in 0..4} :
     \A j \in 1..Len(vs), k \in 1..Len(vs) :
       j < k => IndexOfVar(vs[j]) < IndexOfVar(vs[k])}

StartsAmortKeys(m) ==
  /\ state = m.st
  /\ message = m.msg
  /\ keysLeft = MaxPressesAmort
  /\ call = NoCall

InitAmortKeys ==
  \E vs \in AmortKeyLists :
    StartsAmortKeys(pressVarKeys(appendDigit([st |-> InitialState, msg |-> NoMessage],
                                             "2"), vs))

NextAmortKeys ==
  \/ EnterAmortMode
  \/ ClearEntry
  \/ EnterKey
  \/ UpKey
  \/ DownKey

SpecAmortKeys == InitAmortKeys /\ [][NextAmortKeys]_vars

\* ---- CPT among the other keys ----

\* The register keys pressed before the exploration starts: at least three
\* of the five, in their order on the keyboard; the first takes the digit 0
\* or 2, the others the digit 2.
MaxPressesFrame == 3
StoredKeyLists ==
  {vs \in UNION {[1..len -> TvmVarSet] : len \in 3..5} :
     \A j \in 1..Len(vs), k \in 1..Len(vs) :
       j < k => IndexOfVar(vs[j]) < IndexOfVar(vs[k])}

\* The machine after the digit first, the key vs[1], the digit 2 and the
\* keys after vs[1].
storeRegisters(m, first, vs) ==
  pressVarKeys(appendDigit(varKey(appendDigit(m, first), Head(vs)), "2"), Tail(vs))

StartsFrame(m) ==
  /\ state = m.st
  /\ message = m.msg
  /\ keysLeft = MaxPressesFrame
  /\ call = NoCall

InitFrame ==
  \E first \in Digits, vs \in StoredKeyLists :
    StartsFrame(storeRegisters([st |-> InitialState, msg |-> NoMessage], first, vs))

NextFrame ==
  \/ AppendDigit
  \/ SettingKey
  \/ ToggleBGN
  \/ EnterCFMode
  \/ EnterAmortMode
  \/ EnterKey
  \/ DownKey
  \/ Compute

SpecFrame == InitFrame /\ [][NextFrame]_vars

\* ---- C/CE and RESET among the other keys ----

\* The same registers to start from, with the entry "2" that stored them,
\* and the keys C/CE and RESET among the keys of the settings, the modes and
\* CPT.
NextClear ==
  \/ SettingKey
  \/ ToggleBGN
  \/ EnterCFMode
  \/ EnterAmortMode
  \/ EnterKey
  \/ Compute
  \/ ClearEntry
  \/ Reset

SpecClear == InitFrame /\ [][NextClear]_vars

\* ---- The solvers' loops, one iteration at a time ----

\* A solver's run is followed through its loops: the variable call holds
\* the loop that is running,
\*   fn    the function ("solveNNumeric", "solveIY", "bisectionSolveI",
\*         "calculateIRR", "bisectionIRR"),
\*   phase the loop of it ("probe", "newton", "bisect"), or "returned",
\*   iter  the loop counter, cap the bound the loop tests it against,
\*   v     the loop's variables: <<i, bestI, bestF, done>> for a Newton loop,
\*         <<lo, hi, fLo, done, result>> for a probe loop and a bisection,
\* and every action is one iteration of a loop, its entry or its exit.

LoopRecord(fn, phase, iter, cap, v) ==
  [fn |-> fn, phase |-> phase, iter |-> iter, cap |-> cap, v |-> v]

Running(fn, phase) == call.fn = fn /\ call.phase = phase

\* A variant of LoopContinues for a loop that runs until its body ends it.
LoopContinuesUntilDone(c, done) == ~done

\* for (...; iter < cap; ...): the loop goes through another iteration
LoopContinues(c, done) == ~done /\ c.iter < c.cap

\* The periodic rate of the registers.
LoopRate(st) == getPeriodicRate(st.IY, st.CY, st.PY)

\* f(x) for the function fn on the registers and cash flows of st.
LoopApply(fn, st, x) ==
  IF fn = "solveNNumeric"
  THEN solveNNumericF(LoopRate(st), st.PV, st.PMT, st.FV, st.BGN, x)
  ELSE IF fn \in {"solveIY", "bisectionSolveI"}
  THEN solveIYF(st.N, st.PV, st.PMT, st.FV, st.BGN, x)
  ELSE npvFunc(st.cashFlows, x)

\* The body of the Newton loop of solveIY from `let newI` on, and the whole
\* body, on w = <<i, bestI, bestF, done>>.
solveIYIterationMove(w, bestI, bestF, newI) ==
  IF AbsBelowTol(RSub(newI, w[1])) THEN <<w[1], newI, bestF, TRUE>>
  ELSE <<newI, bestI, bestF, FALSE>>

solveIYIterationNext(w, fVal, dfVal) ==
  IF AbsBelowTol(fVal) THEN <<w[1], w[1], w[3], TRUE>>
  ELSE IF AbsBelowTol(dfVal)
       THEN <<w[1], solveIYBestI(w, fVal), solveIYBestF(w, fVal), TRUE>>
  ELSE solveIYIterationMove(w, solveIYBestI(w, fVal), solveIYBestF(w, fVal),
                            solveIYClamp(w[1], RSub(w[1], RDiv(fVal, dfVal))))

solveIYIteration(st, w) ==
  solveIYIterationNext(w, solveIYF(st.N, st.PV, st.PMT, st.FV, st.BGN, w[1]),
                       solveIYDf(st.N, st.PV, st.PMT, st.BGN, w[1]))

\* The same for the Newton loop of calculateIRR, on w = <<r, bestR, bestNPV, done>>.
irrIterationMove(w, bestR, bestNPV, newR) ==
  IF AbsBelowTol(RSub(newR, w[1])) THEN <<w[1], newR, bestNPV, TRUE>>
  ELSE <<newR, bestR, bestNPV, FALSE>>

irrIterationNext(w, npv, deriv) ==
  IF AbsBelowTol(npv) THEN <<w[1], w[1], w[3], TRUE>>
  ELSE IF AbsBelowTol(deriv)
       THEN <<w[1], irrBestRate(w, npv), irrBestNPV(w, npv), TRUE>>
  ELSE irrIterationMove(w, irrBestRate(w, npv), irrBestNPV(w, npv),
                        irrClamp(w[1], RSub(w[1], RDiv(npv, deriv))))

irrIteration(st, w) ==
  irrIterationNext(w, npvFunc(st.cashFlows, w[1]), npvDerivative(st.cashFlows, w[1]))

\* The body of the bisection loops on b = <<lo, hi, fLo, done, result>>,
\* after mid and fMid are computed.
bisectIterationNext(b, mid, fMid) ==
  IF AbsBelowTol(fMid) THEN <<b[1], b[2], b[3], TRUE, mid>>
  ELSE IF RLt(RMul(b[3], fMid), Zero) THEN <<b[1], mid, b[3], FALSE, Null>>
  ELSE <<mid, b[2], fMid, FALSE, Null>>

bisectIterationAt(fn, st, b, mid) ==
  bisectIterationNext(b, mid, LoopApply(fn, st, mid))

bisectIteration(fn, st, b) ==
  bisectIterationAt(fn, st, b, RDiv(RAdd(b[1], b[2]), Two))

\* The tests of a probe loop: test = 1, 10, ..., 10000 in solveNNumeric, the
\* lists of bisectionSolveI and bisectionIRR.
ProbeTests(fn) ==
  IF fn = "solveNNumeric"
  THEN << One, <<10, 1>>, <<100, 1>>, <<1000, 1>>, <<10000, 1>> >>
  ELSE IF fn = "bisectionSolveI" THEN BisectionTestsI
  ELSE BisectionTestsIRR

\* The loop that a function runs first with the bracket <<lo, hi>> and the
\* values fLo = f(lo), fHi = f(hi): its probe loop when they have the same
\* sign, its bisection otherwise.
FirstLoopFrom(fn, lo, hi, fLo, fHi) ==
  IF RGt(RMul(fLo, fHi), Zero)
  THEN LoopRecord(fn, "probe", 0, Len(ProbeTests(fn)), <<lo, hi, fLo, FALSE, fHi>>)
  ELSE LoopRecord(fn, "bisect", 0, 100, <<lo, hi, fLo, FALSE, Null>>)

FirstLoop(fn, st, lo, hi) ==
  FirstLoopFrom(fn, lo, hi, LoopApply(fn, st, lo), LoopApply(fn, st, hi))

\* One iteration of a probe loop on the value test with fTest = f(test); in
\* a probe loop v[5] holds fHi.  The loop of solveNNumeric looks at fLo only
\* and that of bisectionSolveI passes the tests outside (lo, hi).
probeHitsLo(fn, v, test, fTest) ==
  /\ fn = "bisectionSolveI" => RGt(test, v[1]) /\ RLt(test, v[2])
  /\ RLt(RMul(fTest, v[3]), Zero)

probeHitsHi(fn, v, test, fTest) ==
  /\ fn # "solveNNumeric"
  /\ fn = "bisectionSolveI" => RGt(test, v[1]) /\ RLt(test, v[2])
  /\ RLt(RMul(fTest, v[5]), Zero)

probeIterationAt(c, test, fTest) ==
  IF probeHitsLo(c.fn, c.v, test, fTest)
  THEN LoopRecord(c.fn, "bisect", 0, 100, <<c.v[1], test, c.v[3], FALSE, Null>>)
  ELSE IF probeHitsHi(c.fn, c.v, test, fTest)
  THEN LoopRecord(c.fn, "bisect", 0, 100, <<test, c.v[2], fTest, FALSE, Null>>)
  ELSE [c EXCEPT !.iter = c.iter + 1]

probeIteration(c, st) ==
  probeIterationAt(c, ProbeTests(c.fn)[c.iter + 1],
                   LoopApply(c.fn, st, ProbeTests(c.fn)[c.iter + 1]))

\* The value a Newton loop leaves is not kept: Math.abs(f(bestI)) > 1e-6
newtonRejects(c, st) == AbsAboveTol(LoopApply(c.fn, st, c.v[2]))

\* After the Newton loop: the bisection fallback, or the return of bestI.
newtonExit(c, st) ==
  IF newtonRejects(c, st)
  THEN FirstLoop(IF c.fn = "solveIY" THEN "bisectionSolveI" ELSE "bisectionIRR",
                 st, RateLo, Two)
  ELSE LoopRecord(c.fn, "returned", c.iter, c.cap, <<c.v[2]>>)

\* return mid inside the loop, return (lo + hi) / 2 after it
bisectExit(c) ==
  LoopRecord(c.fn, "returned", c.iter, c.cap,
             <<IF c.v[4] THEN c.v[5] ELSE RDiv(RAdd(c.v[1], c.v[2]), Two)>>)

\* The registers and cash flows the solvers run on: N or I/Y blank and the
\* other registers from small sets, or a list of cash flows with both signs.
MaxLoopN == 3
LoopPeriods == {<<k, 1>> : k \in 1..MaxLoopN}
LoopAmounts == {<<-2, 1>>, <<-1, 1>>, Zero, <<2, 1>>, <<12, 1>>}
LoopRates == {<<600, 1>>, <<1200, 1>>}
LoopCashFlows ==
  {cfs \in UNION {[1..len -> {<<-2, 1>>, <<2, 1>>, <<5, 1>>}] : len \in 2..3} :
     hasPositive(cfs) /\ hasNegative(cfs)}

StartsLoops(st) ==
  /\ state = st
  /\ message = NoMessage
  /\ keysLeft = 0
  /\ call = NoCall

InitLoops ==
  \/ \E n \in LoopPeriods, pv, pmt, fv \in LoopAmounts, isBegin \in BOOLEAN :
       StartsLoops([InitialState EXCEPT !.N = n, !.PV = pv, !.PMT = pmt,
                                        !.FV = fv, !.BGN = isBegin])
  \/ \E iy \in LoopRates, pv, pmt, fv \in LoopAmounts, isBegin \in BOOLEAN :
       /\ pmt # Zero
       /\ StartsLoops([InitialState EXCEPT !.IY = iy, !.PV = pv, !.PMT = pmt,
                                           !.FV = fv, !.BGN = isBegin])
  \/ \E cfs \in LoopCashFlows :
       StartsLoops([InitialState EXCEPT !.mode = "cf", !.cashFlows = cfs])

Enters(c) == call' = c /\ UNCHANGED <<state, message, keysLeft>>

\* compute calls solveIY: let i = 0.05, bestI = i, bestF = Math.abs(f(i))
EnterSolveIY ==
  /\ call = NoCall
  /\ blankVars(state) = {"IY"}
  /\ Enters(LoopRecord("solveIY", "newton", 0, 50,
                       << <<1, 20>>, <<1, 20>>,
                          RAbs(LoopApply("solveIY", state, <<1, 20>>)), FALSE>>))

\* the IRR key calls calculateIRR: let r = 0.1, bestR = r, bestNPV = ...
EnterCalculateIRR ==
  /\ call = NoCall
  /\ state.mode = "cf"
  /\ Len(state.cashFlows) >= 2
  /\ hasPositive(state.cashFlows) /\ hasNegative(state.cashFlows)
  /\ Enters(LoopRecord("calculateIRR", "newton", 0, 100,
                       << <<1, 10>>, <<1, 10>>,
                          RAbs(LoopApply("calculateIRR", state, <<1, 10>>)), FALSE>>))

\* compute calls solveN, which calls solveNNumeric: lo = 0.01, hi = 1000
EnterSolveNNumeric ==
  /\ call = NoCall
  /\ blankVars(state) = {"N"}
  /\ ~AbsBelowTol(LoopRate(state)) /\ ~AbsBelowTol(state.PMT)
  /\ Enters(FirstLoop("solveNNumeric", state, <<1, 100>>, <<1000, 1>>))

SolveIYIteration ==
  /\ Running("solveIY", "newton")
  /\ LoopContinues(call, call.v[4])
  /\ Enters([call EXCEPT !.iter = call.iter + 1,
                         !.v = solveIYIteration(state, call.v)])

IRRIteration ==
  /\ Running("calculateIRR", "newton")
  /\ LoopContinues(call, call.v[4])
  /\ Enters([call EXCEPT !.iter = call.iter + 1,
                         !.v = irrIteration(state, call.v)])

NewtonExit ==
  /\ call.fn \in {"solveIY", "calculateIRR"}
  /\ call.phase = "newton"
  /\ ~LoopContinues(call, call.v[4])
  /\ Enters(newtonExit(call, state))

ProbeIteration ==
  /\ call.fn \in {"solveNNumeric", "bisectionSolveI", "bisectionIRR"}
  /\ call.phase = "probe"
  /\ call.iter < call.cap
  /\ Enters(probeIteration(call, state))

\* The probe loop ends without a change of sign: the bisection runs on the
\* bracket as it was.
ProbeExit ==
  /\ call.fn \in {"solveNNumeric", "bisectionSolveI", "bisectionIRR"}
  /\ call.phase = "probe"
  /\ call.iter >= call.cap
  /\ Enters(LoopRecord(call.fn, "bisect", 0, 100,
                       <<call.v[1], call.v[2], call.v[3], FALSE, Null>>))

BisectIteration ==
  /\ call.fn \in {"solveNNumeric", "bisectionSolveI", "bisectionIRR"}
  /\ call.phase = "bisect"
  /\ LoopContinues(call, call.v[4])
  /\ Enters([call EXCEPT !.iter = call.iter + 1,
                         !.v = bisectIteration(call.fn, state, call.v)])

BisectExit ==
  /\ call.fn \in {"solveNNumeric", "bisectionSolveI", "bisectionIRR"}
  /\ call.phase = "bisect"
  /\ ~LoopContinues(call, call.v[4])
  /\ Enters(bisectExit(call))

NextLoops ==
  \/ EnterSolveIY
  \/ EnterCalculateIRR
  \/ EnterSolveNNumeric
  \/ SolveIYIteration
  \/ IRRIteration
  \/ NewtonExit
  \/ ProbeIteration
  \/ ProbeExit
  \/ BisectIteration
  \/ BisectExit

SpecLoops == InitLoops /\ [][NextLoops]_vars

\* ---- The amortization recurrence on its own ----

\* The loans explored: N up to MaxLoanN periods, the nominal rates 0 %, 600 %
\* and 1200 % (periodic rates 0, 1/2 and 1 at C/Y = P/Y = 12, which the
\* model's numbers hold exactly) and whole amounts up to MaxLoanAmount.
MaxLoanN == 3
MaxLoanAmount == 12
LoanRates == {Zero, <<600, 1>>, <<1200, 1>>}
LoanAmounts == {<<k, 1>> : k \in 1..MaxLoanAmount}

\* The registers st satisfy the TVM equation PV (1+i)^N + PMT AF + FV = 0
\* with FV = 0.
FullyAmortizing(st) ==
  /\ ~AmortIncomplete(st)
  /\ st.FV = Zero
  /\ IsFinite(st.PMT)
  /\ solveIYF(st.N, st.PV, st.PMT, st.FV, st.BGN,
              getPeriodicRate(st.IY, st.CY, st.PY)) = Zero

\* The calculator holding the loan st.
StartsLoan(st) ==
  /\ FullyAmortizing(st)
  /\ state = st
  /\ message = NoMessage
  /\ keysLeft = 0
  /\ call = NoCall

\* A loan of pv over n periods at the nominal rate iy whose payment is the
\* one solvePMT gives for FV = 0.
InitAmort ==
  \E n \in 1..MaxLoanN, iy \in LoanRates, pv \in LoanAmounts, isBegin \in BOOLEAN :
    StartsLoan([InitialState EXCEPT
                  !.N = <<n, 1>>, !.IY = iy, !.PV = pv, !.FV = Zero,
                  !.BGN = isBegin,
                  !.PMT = solvePMT(<<n, 1>>, getPeriodicRate(iy, 12, 12), pv, Zero,
                                   isBegin)])

\* calculateAmort with amortP1 = p1 and amortP2 = p2, periods of the loan in
\* either order.
CalculateAmort ==
  \E p1 \in 1..MaxLoanN, p2 \in 1..MaxLoanN :
    /\ p2 <= MaxN(state)
    /\ Leaves(calculateAmort([Machine EXCEPT !.st.amortP1 = p1, !.st.amortP2 = p2]))
    /\ call' = [fn |-> "calculateAmort"]
    /\ UNCHANGED keysLeft

NextAmort == CalculateAmort

SpecAmort == InitAmort /\ [][NextAmort]_vars

\* ---- The keys of the cash-flow worksheet ----

\* From the initial state: the keys that change the list of cash flows or
\* its cursor (CF, UP, DOWN, ENTER, INS, DEL, RESET) and a digit key.
MaxPressesCF == 6

InitCF ==
  state = InitialState /\ message = NoMessage /\ keysLeft = MaxPressesCF /\ call = NoCall

NextCF ==
  \/ AppendDigit
  \/ EnterCFMode
  \/ UpKey
  \/ DownKey
  \/ EnterKey
  \/ InsKey
  \/ DelKey
  \/ Reset

SpecCF == InitCF /\ [][NextCF]_vars

\* ---- The keys that write the amortization range ----

\* The digit 2 and the keys N, I/Y, PV, PMT are pressed before the
\* exploration starts; the digits and the register keys can change N later.
MaxPressesRange == 5

StartsRange(m) ==
  /\ state = m.st
  /\ message = m.msg
  /\ keysLeft = MaxPressesRange
  /\ call = NoCall

InitRange ==
  StartsRange(pressVarKeys(appendDigit([st |-> InitialState, msg |-> NoMessage], "2"),
                           <<"N", "IY", "PV", "PMT">>))

NextRange ==
  \/ AppendDigit
  \/ TvmVarKey
  \/ EnterAmortMode
  \/ EnterKey
  \/ UpKey
  \/ DownKey
  \/ Reset

SpecRange == InitRange /\ [][NextRange]_vars

\* ---- The keys that write the TVM registers ----

\* At least three registers are stored before the exploration starts, as for
\* CPT among the other keys; the cash flows -2 and 2 are keyed in after them
\* or not, and the CF key pressed again returns to the TVM mode.
MaxPressesRegs == 2

StoredCashFlowLists == {<<>>, <<<<"-", "2">>, <<"2">>>>}

enterWorksheet(m, list) ==
  IF list = <<>> THEN m ELSE enterCFMode(enterCashFlows(enterCFMode(m), list, 1))

StartsRegs(m) ==
  /\ state = m.st
  /\ message = m.msg
  /\ keysLeft = MaxPressesRegs
  /\ call = NoCall

InitRegs ==
  \E first \in Digits, vs \in StoredKeyLists, list \in StoredCashFlowLists :
    StartsRegs(enterWorksheet(storeRegisters([st |-> InitialState, msg |-> NoMessage],
                                             first, vs), list))

NextRegs ==
  \/ AppendDigit
  \/ TvmVarKey
  \/ EnterKey
  \/ Compute
  \/ CalculateNPV
  \/ CalculateIRR
  \/ ClearEntry
  \/ Reset

SpecRegs == InitRegs /\ [][NextRegs]_vars

\* ---- The bisection fallbacks on the same objective ----

\* The cash flows whose NPV is the objective handed to both bisections:
\* lists of two or three amounts with both signs.  NPV of <<1/10, -1/2,
\* 78/125>> is positive at every rate tested but 1.5 (its roots are the
\* rates 1.4 and 1.6).
MaxCashFlowsBisect == 3
BisectAmounts == {<<1, 10>>, <<-1, 2>>, <<78, 125>>, <<-2, 1>>, <<2, 1>>}
BisectCashFlows ==
  {cfs \in UNION {[1..len -> BisectAmounts] : len \in 2..MaxCashFlowsBisect} :
     hasPositive(cfs) /\ hasNegative(cfs)}

InitBisect ==
  /\ \E cfs \in BisectCashFlows :
       state = [InitialState EXCEPT !.mode = "cf", !.cashFlows = cfs]
  /\ message = NoMessage
  /\ keysLeft = 0
  /\ call = NoCall

\* bisectionIRR(npvFunc, -0.99, 2, 100)
BisectionIRR ==
  /\ call.fn # "bisectionIRR"
  /\ Enters([fn |-> "bisectionIRR",
             bracket |-> bisectionIRRBracket(NpvObjective(state.cashFlows), RateLo, Two),
             value |-> bisectionIRR(NpvObjective(state.cashFlows), RateLo, Two, 100)])

\* bisectionSolveI(npvFunc, -0.99, 2, 100)
BisectionSolveI ==
  /\ call.fn # "bisectionSolveI"
  /\ Enters([fn |-> "bisectionSolveI",
             bracket |-> bisectionSolveIBracket(NpvObjective(state.cashFlows), RateLo, Two),
             value |-> bisectionSolveI(NpvObjective(state.cashFlows), RateLo, Two, 100)])

NextBisect ==
  \/ BisectionIRR
  \/ BisectionSolveI

SpecBisect == InitBisect /\ [][NextBisect]_vars

\* ---- The service worker (src/sw.js) ----

\* The service worker is a program of its own.  In its specification the
\* variable state holds the worker: its place in the life cycle (worker),
\* the URLs stored in the cache CACHE_NAME (cache) and the names of the
\* caches that exist (names); message holds the response that answered
\* the last fetch event, call the listener that ran last with its inputs,
\* and keysLeft the events that are still to come.

CACHE_NAME == "tvm-calc-v11"
ASSETS ==
  {"./", "./index.html", "./styles.css", "./app.js", "./manifest.webmanifest", "./sw.js"}

\* The names of the caches that earlier versions of the worker left.
OldCacheNames == {"tvm-calc-v10", "tvm-calc-v9"}

\* The URLs requested: the assets and one that is not an asset.
RequestURLs == ASSETS \cup {"./icon.png"}
Requests ==
  [url : RequestURLs, method : {"GET", "POST"}, mode : {"navigate", "cors"}]

\* What the network does with a request: a 200 response of type basic, a
\* response of another status, or no response (the fetch promise rejects).
NetworkOutcomes == {"ok", "notFound", "fails"}

\* What the cache storage does at install: caches.open rejects, cache.addAll
\* rejects (one of its requests failed, and it stores nothing), or both
\* fulfil.
InstallOutcomes == {"openRejects", "addAllRejects", "cached"}

MaxEventsSW == 5

\* A promise chain: p.then(q) and p.catch(handler) for a handler that
\* returns, on the settled states "fulfilled" and "rejected".
PromiseThen(p, q) == IF p = "fulfilled" THEN q ELSE p
PromiseCatch(p) == "fulfilled"

\* caches.open(CACHE_NAME).then(addAll).then(skipWaiting).catch(console.error)
installChain(outcome) ==
  PromiseCatch(
    PromiseThen(PromiseThen(IF outcome = "openRejects" THEN "rejected" ELSE "fulfilled",
                            IF outcome = "addAllRejects" THEN "rejected" ELSE "fulfilled"),
                "fulfilled"))

\* The install listener: the worker is installed when the promise given to
\* event.waitUntil fulfils and is discarded when it rejects.
installListener(w, outcome) ==
  [w EXCEPT !.cache = IF outcome = "cached" THEN @ \cup ASSETS ELSE @,
            !.names = IF outcome = "openRejects" THEN @ ELSE @ \cup {CACHE_NAME},
            !.worker = IF installChain(outcome) = "fulfilled" THEN "installed"
                       ELSE "redundant"]

\* caches.keys().then(names => Promise.all(deletes)).then(clients.claim):
\* Promise.all rejects when one caches.delete does; deleted holds the names
\* for which caches.delete fulfils.
activateChain(names, deleted) ==
  PromiseThen(IF \A name \in names : name # CACHE_NAME => name \in deleted
              THEN "fulfilled" ELSE "rejected",
              "fulfilled")

\* A variant of the activate listener without the filter on the names.
activateListenerAll(w, deleted) ==
  [w EXCEPT !.names = {name \in @ : name \notin deleted},
            !.cache = IF CACHE_NAME \in deleted THEN {} ELSE @,
            !.worker = "activated"]

\* The activate listener: the caches of other names are deleted, and the
\* worker is active whether the promise given to event.waitUntil fulfils
\* or not.
activateListener(w, deleted) ==
  [w EXCEPT !.names = {name \in @ : name = CACHE_NAME \/ name \notin deleted},
            !.worker = "activated"]

NoResponse == [from |-> "none"]

\* The response of the catch handler of fetch(event.request): the value of
\* caches.match('./index.html'), which is undefined when it is not stored,
\* for a navigation; the response 'Offline' otherwise.
offlineFallback(w, request) ==
  IF request.mode = "navigate"
  THEN IF "./index.html" \in w.cache
       THEN [from |-> "cache", url |-> "./index.html", status |-> 200]
       ELSE [from |-> "undefined"]
  ELSE [from |-> "worker", body |-> "Offline", status |-> 503]

\* The response that the fetch listener answers with: none when it returns
\* without event.respondWith.
fetchResponse(w, request, net) ==
  IF request.method # "GET" THEN NoResponse
  ELSE IF request.url \in w.cache
  THEN [from |-> "cache", url |-> request.url, status |-> 200]
  ELSE IF net = "fails" THEN offlineFallback(w, request)
  ELSE [from |-> "network", url |-> request.url,
        status |-> IF net = "ok" THEN 200 ELSE 404]

\* cache.put(event.request, responseToCache) for a 200 response of type basic
fetchListener(w, request, net) ==
  IF request.method = "GET" /\ request.url \notin w.cache /\ net = "ok"
  THEN [w EXCEPT !.cache = @ \cup {request.url}, !.names = @ \cup {CACHE_NAME}]
  ELSE w

\* fetch(event.request) is called: the request is a GET that is not stored.
contactsNetwork(w, request) == request.method = "GET" /\ request.url \notin w.cache

InitSW ==
  /\ \E old \in SUBSET OldCacheNames :
       state = [worker |-> "parsed", cache |-> {}, names |-> old]
  /\ message = NoResponse
  /\ keysLeft = MaxEventsSW
  /\ call = NoCall

\* An event is dispatched to the worker.
Dispatched(c) ==
  /\ keysLeft > 0
  /\ keysLeft' = keysLeft - 1
  /\ call' = c

InstallEvent ==
  \E outcome \in InstallOutcomes :
    /\ state.worker = "parsed"
    /\ Dispatched([fn |-> "install", outcome |-> outcome,
                   waitUntil |-> installChain(outcome)])
    /\ state' = installListener(state, outcome)
    /\ UNCHANGED message

\* self.skipWaiting(): the installed worker is activated without waiting.
ActivateEvent ==
  \E deleted \in SUBSET (OldCacheNames \cup {CACHE_NAME}) :
    /\ state.worker = "installed"
    /\ Dispatched([fn |-> "activate", before |-> state.names,
                   waitUntil |-> activateChain(state.names, deleted)])
    /\ state' = activateListener(state, deleted)
    /\ UNCHANGED message

\* A request of a page the active worker controls.
FetchEvent ==
  \E request \in Requests, net \in NetworkOutcomes :
    /\ state.worker = "activated"
    /\ Dispatched([fn |-> "fetch", request |-> request, net |-> net,
                   hit |-> request.url \in state.cache,
                   network |-> contactsNetwork(state, request)])
    /\ state' = fetchListener(state, request, net)
    /\ message' = fetchResponse(state, request, net)

NextSW ==
  \/ InstallEvent
  \/ ActivateEvent
  \/ FetchEvent

SpecSW == InitSW /\ [][NextSW]_vars

\* ---- Properties of CPT ----

\* C1: compute invoked with exactly one of N, IY, PV, PMT, FV null and a
\* finite solver result stores that result in the null register: afterwards
\* all five registers are non-null, the solved register equals the solver
\* result, and lastComputedVar names the solved register.
C1_ComputeStoresResult ==
  [][\A v \in TvmVarSet :
       (call'.fn = "compute" /\ blankVars(state) = {v} /\ IsFinite(solverResult(state, v)))
         => /\ blankVars(state') = {}
            /\ state'[v] = solverResult(state, v)
            /\ state'.lastComputedVar = v]_vars

\* A register was solved and stored: the message names it and it is the last
\* computed variable.
C1_Witness ==
  /\ message.type = "success"
  /\ state.lastComputedVar \in TvmVarSet
  /\ state[state.lastComputedVar] = state.lastComputed
  /\ blankVars(state) = {}

\* C2: compute invoked with zero null registers, or with more than one null
\* register, changes none of N, IY, PV, PMT, FV, lastComputed,
\* lastComputedVar or entry.
C2_ComputeNoOp ==
  [][(call'.fn = "compute" /\ Cardinality(blankVars(state)) # 1)
       => /\ \A v \in TvmVarSet : state'[v] = state[v]
          /\ state'.lastComputed = state.lastComputed
          /\ state'.lastComputedVar = state.lastComputedVar
          /\ state'.entry = state.entry]_vars

\* compute was invoked with all five registers set.
C2_Witness ==
  /\ message.text = <<"All values set - clear one to compute">>
  /\ blankVars(state) = {}

\* C3: when the solver called by compute returns NaN or a non-finite value,
\* the target register stays null and lastComputed, lastComputedVar and entry
\* are unchanged; and no TVM register ever holds NaN or an infinity.
C3_NonFiniteNotStored ==
  /\ [](\A v \in TvmVarSet : state[v] \notin {NaN, PosInf, NegInf})
  /\ [][\A v \in TvmVarSet :
          (call'.fn = "compute" /\ blankVars(state) = {v}
             /\ solverResult(state, v) \in {NaN, PosInf, NegInf})
            => /\ state'[v] = Null
               /\ state'.lastComputed = state.lastComputed
               /\ state'.lastComputedVar = state.lastComputedVar
               /\ state'.entry = state.entry]_vars

\* compute was invoked with one null register and its solver gave no finite
\* value.
C3_Witness ==
  /\ message.text = <<"No solution found">>
  /\ \E v \in TvmVarSet :
       blankVars(state) = {v} /\ solverResult(state, v) \in {NaN, PosInf, NegInf}

\* C4: when the numeric solve for N or the bisection fallback for I/Y finds
\* no sign change in any bracket, compute reports no solution and leaves the
\* target register null.
C4_NoSignChangeNotStored ==
  [][/\ (/\ call'.fn = "compute"
         /\ blankVars(state) = {"N"}
         /\ LET i == getPeriodicRate(state.IY, state.CY, state.PY)
                b == solveNNumericBracket(i, state.PV, state.PMT, state.FV, state.BGN)
            IN  /\ ~AbsBelowTol(i) /\ ~AbsBelowTol(state.PMT)
                /\ RGt(RMul(solveNNumericF(i, state.PV, state.PMT, state.FV, state.BGN, b[1]),
                            solveNNumericF(i, state.PV, state.PMT, state.FV, state.BGN, b[2])),
                       Zero))
        => (state'.N = Null /\ message'.text = <<"No solution found">>)
     /\ (/\ call'.fn = "compute"
         /\ blankVars(state) = {"IY"}
         /\ LET f == TvmObjective(state.N, state.PV, state.PMT, state.FV, state.BGN)
                b == bisectionSolveIBracket(f, RateLo, Two)
            IN  /\ solveIYFallsBack(state.N, state.PV, state.PMT, state.FV, state.BGN)
                /\ RGt(RMul(Apply(f, b[1]), Apply(f, b[2])), Zero))
        => (state'.IY = Null /\ message'.text = <<"No solution found">>)]_vars

\* ---- Properties of the amortization mode ----

\* C7: in every reachable state where amortResults is non-null,
\* 1 <= amortP1 and amortP2 <= floor(N); and a requested period outside
\* [1, floor(N)] is rejected without changing amortP1, amortP2 or amortResults.
C7_AmortRangeInsideLoan ==
  /\ [](state.amortResults # Null
          => /\ state.N # Null
             /\ 1 <= state.amortP1
             /\ state.amortP2 <= MaxN(state))
  /\ [][(/\ call'.fn = "enterKey"
         /\ state.mode = "amort"
         /\ LET value == FloorInt(getEntryValue(state))
            IN  value < 1 \/ value > MaxN(state))
        => /\ state'.amortP1 = state.amortP1
           /\ state'.amortP2 = state.amortP2
           /\ state'.amortResults = state.amortResults]_vars

\* C8: whenever mode is 'amort' and amortResults is non-null, amortResults
\* equals the amortization of the current N, IY, PV, PMT, CY, PY, BGN over
\* [amortP1, amortP2].
C8_AmortResultsCurrent ==
  (state.mode = "amort" /\ state.amortResults # Null)
    => /\ ~AmortIncomplete(state)
       /\ state.amortResults =
            amortize(state.IY, state.PV, state.PMT, state.CY, state.PY, state.BGN,
                     state.amortP1, state.amortP2)

\* ---- Properties of IRR and of the settings ----

\* C5: calculateIRR stores a rate in the I/Y register only when root-finding
\* converged; when the Newton iteration is not kept and the bisection
\* fallback has no sign change to bisect on, it reports an error and leaves
\* IY, lastComputed and mode unchanged.
C5_IRRNotStoredUnlessConverged ==
  [][(/\ call'.fn = "calculateIRR"
      /\ Len(state.cashFlows) >= 2
      /\ LET f == NpvObjective(state.cashFlows)
             b == bisectionIRRBracket(f, RateLo, Two)
         IN  /\ irrFallsBack(state.cashFlows)
             /\ RGt(RMul(Apply(f, b[1]), Apply(f, b[2])), Zero))
       => /\ state'.IY = state.IY
          /\ state'.lastComputed = state.lastComputed
          /\ state'.mode = state.mode
          /\ message'.type = "error"]_vars

\* C6: in every reachable state CY and PY are integers in [1, 365]; a
\* rejected C/Y or P/Y store leaves CY and PY unchanged.
C6_SettingsInRange ==
  /\ [](state.CY \in 1..365 /\ state.PY \in 1..365)
  /\ [][(call'.fn = "varKey" /\ message'.type = "error")
          => (state'.CY = state.CY /\ state'.PY = state.PY)]_vars

\* ---- Properties of the amortization recurrence ----

\* calculateAmort has run over the full range [1, N] of a fully-amortizing
\* loan.
FullRangeAmortized ==
  /\ call.fn = "calculateAmort"
  /\ FullyAmortizing(state)
  /\ state.amortP1 = 1
  /\ state.amortP2 = MaxN(state)
  /\ state.N = <<MaxN(state), 1>>

\* C9: for a fully-amortizing loan (registers satisfying the TVM equation
\* with FV = 0), the principal accumulated by the amortization recurrence
\* over the full range [1, N] equals -PV.
C9_PrincipalSumsToMinusPV ==
  FullRangeAmortized => AbsBelowTol(RAdd(state.amortResults[1], state.PV))

\* C9, as the recurrence has it: for a fully-amortizing loan the principal
\* accumulated over the full range [1, N] equals +PV in END timing, where
\* principal = -PMT - interest is the amount the balance falls by and the
\* balance ends at 0; in BGN timing every payment is principal, and the
\* principal accumulated equals -PMT * N.
C9_PrincipalSumsToPV ==
  FullRangeAmortized
    => IF state.BGN
       THEN AbsBelowTol(RAdd(state.amortResults[1], RMul(state.PMT, state.N)))
       ELSE /\ AbsBelowTol(RSub(state.amortResults[1], state.PV))
            /\ AbsBelowTol(state.amortResults[3])

\* calculateAmort has run over the full range of a loan of several periods
\* in END timing that bears interest.
C9_Witness ==
  /\ FullRangeAmortized
  /\ ~state.BGN
  /\ MaxN(state) > 1
  /\ RGt(state.amortResults[2], Zero)

\* C10: for a fully-amortizing loan (FV = 0), the interest plus the
\* principal accumulated by the amortization recurrence over the full range
\* [1, N] equals -PMT * N, in END timing and in BGN timing.
C10_PaymentsSumToMinusPMTN ==
  FullRangeAmortized
    => AbsBelowTol(RAdd(RAdd(state.amortResults[2], state.amortResults[1]),
                        RMul(state.PMT, state.N)))

RefInterestOn(b, i) == RMul(b, i)
RefBalanceAfterEnd(b, pmt, interest) == RAdd(b, RAdd(interest, pmt))
RefBalanceAfterBgn(b, interest) == RAdd(b, interest)

\* The balance after period k, starting from balance = PV.
RECURSIVE RefBalance(_, _, _, _, _)
RefBalanceStep(b, pmt, i, isBegin) ==
  IF isBegin
  THEN RefBalanceAfterBgn(RAdd(b, RNeg(pmt)), RefInterestOn(RAdd(b, RNeg(pmt)), i))
  ELSE RefBalanceAfterEnd(b, pmt, RefInterestOn(b, i))

RefBalance(pv, pmt, i, isBegin, k) ==
  IF k = 0 THEN pv
  ELSE RefBalanceStep(RefBalance(pv, pmt, i, isBegin, k - 1), pmt, i, isBegin)

\* The interest and the principal of period k.
RefInterest(pv, pmt, i, isBegin, k) ==
  IF isBegin
  THEN RefInterestOn(RAdd(RefBalance(pv, pmt, i, isBegin, k - 1), RNeg(pmt)), i)
  ELSE RefInterestOn(RefBalance(pv, pmt, i, isBegin, k - 1), i)

RefPrincipal(pv, pmt, i, isBegin, k) ==
  IF isBegin THEN RNeg(pmt)
  ELSE RSub(RNeg(pmt), RefInterest(pv, pmt, i, isBegin, k))

\* The totals over the periods p1..k.
RECURSIVE RefTotalPrincipal(_, _, _, _, _, _)
RefTotalPrincipal(pv, pmt, i, isBegin, p1, k) ==
  IF k < p1 \/ k < 1 THEN Zero
  ELSE RAdd(RefTotalPrincipal(pv, pmt, i, isBegin, p1, k - 1),
            RefPrincipal(pv, pmt, i, isBegin, k))

RECURSIVE RefTotalInterest(_, _, _, _, _, _)
RefTotalInterest(pv, pmt, i, isBegin, p1, k) ==
  IF k < p1 \/ k < 1 THEN Zero
  ELSE RAdd(RefTotalInterest(pv, pmt, i, isBegin, p1, k - 1),
            RefInterest(pv, pmt, i, isBegin, k))

RefAmort(st, i) ==
  << RefTotalPrincipal(st.PV, st.PMT, i, st.BGN, st.amortP1, st.amortP2),
     RefTotalInterest(st.PV, st.PMT, i, st.BGN, st.amortP1, st.amortP2),
     RefBalance(st.PV, st.PMT, i, st.BGN, st.amortP2) >>

\* C12: calculateAmort equals the reference recurrence: starting from
\* balance = PV it steps every period 1..P2, adds principal and interest to
\* the totals only for periods >= P1, and reports the balance after period
\* P2, which does not depend on P1.
C12_AmortIsReferenceRecurrence ==
  call.fn = "calculateAmort"
    => state.amortResults = RefAmort(state, getPeriodicRate(state.IY, state.CY, state.PY))

\* calculateAmort has run in BGN timing over a range that starts after
\* period 1, on a loan that bears interest.
C12_Witness ==
  /\ call.fn = "calculateAmort"
  /\ state.BGN
  /\ state.amortP1 = 2
  /\ state.amortP2 = 3
  /\ RGt(state.amortResults[2], Zero)

\* C13: if any of N, IY, PV, PMT is null, enterAmortMode leaves mode,
\* amortP1, amortP2 and amortResults unchanged, and calculateAmort (which
\* the up and down keys run in amortization mode) yields amortResults = null.
C13_IncompleteNotAmortized ==
  /\ [][(call'.fn = "enterAmortMode" /\ AmortIncomplete(state))
          => /\ state'.mode = state.mode
             /\ state'.amortP1 = state.amortP1
             /\ state'.amortP2 = state.amortP2
             /\ state'.amortResults = state.amortResults]_vars
  /\ [][(/\ call'.fn \in {"upKey", "downKey"}
         /\ state.mode = "amort"
         /\ AmortIncomplete(state))
          => state'.amortResults = Null]_vars

\* enterAmortMode has refused incomplete registers that were complete when
\* the amortization was last computed.
C13_Witness ==
  /\ call.fn = "enterAmortMode"
  /\ AmortIncomplete(state)
  /\ message.text = <<"Set N, I/Y, PV, PMT first">>
  /\ state.amortResults # Null

C15_ZeroRateFV ==
  [][(/\ call'.fn = "compute"
      /\ blankVars(state) = {"FV"}
      /\ state.IY = Zero
      /\ ~state.BGN)
     => /\ state'.FV = RNeg(RAdd(state.PV, RMul(state.PMT, state.N)))
        /\ state'.FV = solveFV(state.N, Zero, state.PV, state.PMT, FALSE)]_vars

\* FV of 2 now and 2 per period over three periods at zero rate is -8.
C15_Witness ==
  /\ call.fn = "compute"
  /\ state.lastComputedVar = "FV"
  /\ state.IY = Zero
  /\ ~state.BGN
  /\ state.N = <<3, 1>>
  /\ state.PV = <<2, 1>>
  /\ state.PMT = <<2, 1>>
  /\ state.FV = <<-8, 1>>

\* ---- C16 ----
\* Nominal rates that PV is compared at.
MonotoneRates == TvmRates \cup {<<900, 1>>, <<2400, 1>>}

\* solvePV on the registers of st at the nominal rate iy
PVAt(st, iy) ==
  solvePV(st.N, getPeriodicRate(iy, st.CY, st.PY), st.PMT, st.FV, st.BGN)

\* PV at every rate above that of st is strictly less than pv.
PVFallsFrom(st, pv) ==
  \A r \in MonotoneRates : RLt(st.IY, r) => RLt(PVAt(st, r), pv)

\* CPT runs on a blank PV at a positive rate.
SolvesPVAtPositiveRate(st) == blankVars(st) = {"PV"} /\ RLt(Zero, st.IY)

\* PMT and FV are both paid out (neither positive), over N > 0 periods, and
\* some amount is discounted over a positive time: FV is non-zero, or PMT is
\* non-zero and paid at the end of periods or over more than one period.
DiscountsOutflows(st) ==
  /\ RLt(Zero, st.N)
  /\ st.BGN => ~RLt(st.N, One)
  /\ ~RLt(Zero, st.PMT)
  /\ ~RLt(Zero, st.FV)
  /\ \/ st.FV # Zero
     \/ st.PMT # Zero /\ (~st.BGN \/ RLt(One, st.N))

C17_NoPeriodsNoPMT ==
  [][(call'.fn = "compute" /\ blankVars(state) = {"PMT"} /\ state.N = Zero)
     => /\ annuityFactor(getPeriodicRate(state.IY, state.CY, state.PY),
                         state.N, state.BGN) = Zero
        /\ state'.PMT = Null
        /\ state' = state
        /\ message' = [text |-> <<"No solution found">>, type |-> "error"]]_vars

\* CPT was refused on a blank PMT with N = 0 at a non-zero rate, whatever the
\* amounts in PV and FV.
C17_Witness ==
  /\ call.fn = "compute"
  /\ blankVars(state) = {"PMT"}
  /\ state.N = Zero
  /\ state.IY = <<600, 1>>
  /\ state.PV = <<2, 1>>
  /\ state.FV = <<-1, 1>>
  /\ message.type = "error"

GrowthOnlyImpossible(st) ==
  /\ st.PMT = Zero
  /\ \/ st.IY = Zero
     \/ st.PV = Zero
     \/ RLe(RDiv(RNeg(st.FV), st.PV), Zero)

\* C19: CPT on a blank N with PMT = 0 reports no solution and leaves N null
\* when the rate is zero, or PV = 0, or -FV / PV <= 0.
C19_GrowthOnlyNoN ==
  [][(/\ call'.fn = "compute"
      /\ blankVars(state) = {"N"}
      /\ GrowthOnlyImpossible(state))
     => /\ state'.N = Null
        /\ state' = state
        /\ message' = [text |-> <<"No solution found">>, type |-> "error"]]_vars

\* CPT was refused on a blank N with PMT = 0 at a non-zero rate, PV and FV
\* both positive.
C19_Witness ==
  /\ call.fn = "compute"
  /\ blankVars(state) = {"N"}
  /\ state.PMT = Zero
  /\ state.IY = <<600, 1>>
  /\ state.PV = <<2, 1>>
  /\ state.FV = <<1, 1>>
  /\ message.text = <<"No solution found">>

\* ---- C20 ----
\* C20: the NPV key and the IRR key on fewer than 2 cash flows show the error
\* 'Enter at least 2 cash flows' and leave IY, lastComputed, entry, mode and
\* cashFlows as they were.
C20_ShortListRejected ==
  [][(/\ call'.fn \in {"calculateNPV", "calculateIRR"}
      /\ Len(state.cashFlows) < 2)
     => /\ message' = [text |-> <<"Enter at least 2 cash flows">>, type |-> "error"]
        /\ state'.IY = state.IY
        /\ state'.lastComputed = state.lastComputed
        /\ state'.entry = state.entry
        /\ state'.mode = state.mode
        /\ state'.cashFlows = state.cashFlows]_vars

\* The NPV key was refused on one cash flow with a discount rate in I/Y.
C20_Witness ==
  /\ call.fn = "calculateNPV"
  /\ Len(state.cashFlows) = 1
  /\ state.IY # Null
  /\ state.mode = "cf"
  /\ message.text = <<"Enter at least 2 cash flows">>

\* ---- C21 ----
\* The sum over t = 0..k of cfs[t] / (1 + r)^t (cfs[t] is cfs[t + 1] here).
RECURSIVE DiscountedSum(_, _, _)
DiscountedSum(cfs, r, k) ==
  IF k < 0 THEN Zero
  ELSE RAdd(DiscountedSum(cfs, r, k - 1),
            RDiv(cfs[k + 1], MathPow(RAdd(One, r), FromInt(k))))

\* The plain sum of the first k cash flows.
RECURSIVE PlainSum(_, _)
PlainSum(cfs, k) ==
  IF k = 0 THEN Zero ELSE RAdd(PlainSum(cfs, k - 1), cfs[k])

\* C21: the NPV key on at least 2 cash flows with I/Y set stores in
\* lastComputed the sum over t of CF[t] / (1 + IY/100/PY)^t, which is the
\* plain sum of the cash flows when I/Y = 0.
C21_NPVIsDiscountedSum ==
  [][(/\ call'.fn = "calculateNPV"
      /\ Len(state.cashFlows) >= 2
      /\ state.IY # Null)
     => /\ state'.lastComputed =
             DiscountedSum(state.cashFlows,
                           RDiv(RDiv(state.IY, Hundred), FromInt(state.PY)),
                           Len(state.cashFlows) - 1)
        /\ state.IY = Zero =>
             state'.lastComputed = PlainSum(state.cashFlows, Len(state.cashFlows))]_vars

\* -2 now and 2 a period later at I/Y = 2 (1/600 a period): NPV = -2/601.
C21_Witness ==
  /\ call.fn = "calculateNPV"
  /\ state.IY = <<2, 1>>
  /\ state.cashFlows = << <<-2, 1>>, <<2, 1>> >>
  /\ state.lastComputed = <<-2, 601>>
  /\ state.mode = "tvm"

\* ---- C22 ----
\* No cash flow is strictly positive, or none is strictly negative.
OneSigned(cfs) ==
  \/ \A k \in 1..Len(cfs) : cfs[k][1] <= 0
  \/ \A k \in 1..Len(cfs) : cfs[k][1] >= 0

\* C22: the IRR key on cash flows with no strictly positive entry or no
\* strictly negative entry shows an error and leaves IY, lastComputed, entry
\* and mode as they were.
C22_OneSignedRejected ==
  [][(call'.fn = "calculateIRR" /\ OneSigned(state.cashFlows))
     => /\ message'.type = "error"
        /\ Len(state.cashFlows) >= 2 =>
             message'.text = <<"Need both positive and negative cash flows">>
        /\ state'.IY = state.IY
        /\ state'.lastComputed = state.lastComputed
        /\ state'.entry = state.entry
        /\ state'.mode = state.mode]_vars

\* The IRR key was refused on the cash flows 2, 0: the zero is not negative.
C22_Witness ==
  /\ call.fn = "calculateIRR"
  /\ state.cashFlows = << <<2, 1>>, Zero >>
  /\ state.mode = "cf"
  /\ message.text = <<"Need both positive and negative cash flows">>

\* ---- C23 ----
\* C23: CPT leaves CY, PY, BGN, cashFlows, cfIndex, amortP1 and amortP2 as
\* they were, and every TVM register too, but for the single blank register
\* it solves for; this in every outcome of CPT.
C23_ComputeFrame ==
  [][call'.fn = "compute"
     => /\ state'.CY = state.CY
        /\ state'.PY = state.PY
        /\ state'.BGN = state.BGN
        /\ state'.cashFlows = state.cashFlows
        /\ state'.cfIndex = state.cfIndex
        /\ state'.amortP1 = state.amortP1
        /\ state'.amortP2 = state.amortP2
        /\ \A v \in TvmVarSet :
             state'[v] # state[v] => blankVars(state) = {v}]_vars

\* CPT solved FV in mode 'amort' with the range moved to period 2.
C23_Witness ==
  /\ call.fn = "compute"
  /\ state.lastComputedVar = "FV"
  /\ state.FV # Null
  /\ state.mode = "amort"
  /\ state.amortP1 = 2

\* ---- C24 ----
\* The loops a run has still to go through, counted in steps of the loop
\* machine: the iterations the running loop has left before its cap, its
\* exit, and the loops that can follow it (a Newton loop of at most 100
\* iterations, then a probe loop, then a bisection of 100).
LoopsAfter(phase) ==
  CASE phase = "returned" -> 0
    [] phase = "bisect" -> 1
    [] phase = "probe" -> 103
    [] phase = "newton" -> 205
    [] OTHER -> 307

LoopsLeft(c) ==
  IF c.fn = "none" THEN LoopsAfter("none")
  ELSE IF c.phase = "returned" THEN 0
  ELSE LoopsAfter(c.phase) + (c.cap - c.iter)

\* C24: every loop of the solvers (the probe loop and the bisection of
\* solveNNumeric, the Newton loops of solveIY and calculateIRR, the probe
\* loops and bisections of bisectionSolveI and bisectionIRR) stays within
\* its iteration cap, which is 50 or 100 (the length of the list for a probe
\* loop), and every run of a solver returns: each step of a run lowers the
\* natural number LoopsLeft, which is 0 in the returned state only, so that
\* no run has more than LoopsLeft(NoCall) steps.
C24_SolversTerminate ==
  /\ [](call.fn # "none" =>
         /\ call.iter <= call.cap
         /\ call.cap \in {50, 100, Len(ProbeTests(call.fn))})
  /\ [](LoopsLeft(call) \in Nat /\ (LoopsLeft(call) = 0 <=> call.fn # "none" /\ call.phase = "returned"))
  /\ [][LoopsLeft(call') < LoopsLeft(call)]_vars

\* A bisection returned after all of its 100 iterations.
C24_Witness ==
  /\ call.fn = "bisectionSolveI"
  /\ call.phase = "returned"
  /\ call.iter = 100

\* ---- C25 ----
RegistersOf(st) == <<st.N, st.IY, st.PV, st.PMT, st.FV>>

\* The press of C/CE that this step is, when it is one, comes gap ms after
\* the previous press of C/CE.
ClearPressAfter(gap) ==
  /\ call' = [fn |-> "clearEntry"]
  /\ keysLeft' # keysLeft
  /\ state.lastClearTime # 0
  /\ state'.lastClearTime - state.lastClearTime = gap

\* C25: a press of C/CE less than 500 ms after the previous press of C/CE
\* sets the five registers to null; a press 500 ms or more after it leaves
\* the five registers as they are and sets the entry to "0", the operator
\* and the operand to null.
C25_DoublePressClears ==
  [][\A gap \in 0..1000 :
       ClearPressAfter(gap) =>
         IF gap < 500
         THEN RegistersOf(state') = <<Null, Null, Null, Null, Null>>
         ELSE /\ RegistersOf(state') = RegistersOf(state)
              /\ state'.entry = StrZero
              /\ state'.operator = "null"
              /\ state'.operand = Null]_vars

\* C/CE pressed 499 ms after a press of C/CE: the registers are cleared.
C25_Witness ==
  /\ call = [fn |-> "clearEntry"]
  /\ state.lastClearTime = 1499
  /\ message.text = <<"TVM cleared">>
  /\ RegistersOf(state) = <<Null, Null, Null, Null, Null>>
  /\ keysLeft = MaxPressesFrame - 2

\* ---- C26 ----
\* C26: in whatever state RESET is pressed, it leaves the state the
\* calculator starts in: the five registers null, CY = PY = 12, BGN false,
\* the entry "0", selectedVar null, memory 0, operator and operand null,
\* rclMode false, mode "tvm", cashFlows = [0], cfIndex = 0, cfDiscountRate
\* null, amortP1 = amortP2 = 1, amortResults, lastComputed and
\* lastComputedVar null.  (reset does not assign lastClearTime, the one
\* field that keeps its value.)
C26_ResetRestores ==
  call = [fn |-> "reset"] =>
    state = [InitialState EXCEPT !.lastClearTime = state.lastClearTime]

\* RESET pressed after C/CE and another key.
C26_Witness ==
  /\ call = [fn |-> "reset"]
  /\ keysLeft = 0
  /\ state.lastClearTime = 1000
  /\ state.mode = "tvm"
  /\ state.cashFlows = <<Zero>>

\* ---- C27 ----
\* C27: whenever the promise that the install listener gives to
\* event.waitUntil fulfils, every URL of ASSETS is stored in the cache
\* CACHE_NAME.
C27_InstallCachesAll ==
  (call.fn = "install" /\ call.waitUntil = "fulfilled") => ASSETS \subseteq state.cache

\* ---- C28 ----
\* C28: the active worker answers every GET request with a response, with
\* the network or without: a request that is stored is answered from the
\* cache and the network is not contacted; a request that is not stored and
\* that the network fails is answered with the stored index.html when it is
\* a navigation and with the 503 response 'Offline' otherwise.
C28_AlwaysAnswered ==
  (call.fn = "fetch" /\ call.request.method = "GET") =>
    /\ message.from \in {"cache", "network", "worker"}
    /\ call.hit =>
         /\ message = [from |-> "cache", url |-> call.request.url, status |-> 200]
         /\ ~call.network
    /\ (~call.hit /\ call.net = "fails") =>
         IF call.request.mode = "navigate"
         THEN message = [from |-> "cache", url |-> "./index.html", status |-> 200]
         ELSE message = [from |-> "worker", body |-> "Offline", status |-> 503]

\* ---- C29 ----
\* The value at which the next iteration of a Newton loop evaluates the
\* objective.
NewtonIterate == call.v[1]

EvaluatesNewtonIterate ==
  /\ call.fn \in {"solveIY", "calculateIRR"}
  /\ call.phase = "newton"
  /\ LoopContinues(call, call.v[4])

\* C29: in the Newton loops of solveIY and calculateIRR every iterate at
\* which the objective is evaluated lies in (-0.99, 10].
C29_IteratesInBounds ==
  EvaluatesNewtonIterate => RGt(NewtonIterate, RateLo) /\ RLe(NewtonIterate, RateHi)

\* ---- C30 ----
\* C30: on the same objective f, bisectionIRR(f, -0.99, 2, 100) and
\* bisectionSolveI(f, -0.99, 2, 100) bisect the same bracket and return the
\* same value.
C30_SameBisection ==
  call.fn \in {"bisectionIRR", "bisectionSolveI"} =>
    /\ bisectionIRRBracket(NpvObjective(state.cashFlows), RateLo, Two)
         = bisectionSolveIBracket(NpvObjective(state.cashFlows), RateLo, Two)
    /\ bisectionIRR(NpvObjective(state.cashFlows), RateLo, Two, 100)
         = bisectionSolveI(NpvObjective(state.cashFlows), RateLo, Two, 100)

\* ---- C31 ----
\* A Newton loop has ended: by its break (done) or by its budget.
NewtonLoopEnded ==
  /\ call.fn \in {"solveIY", "calculateIRR"}
  /\ call.phase = "newton"
  /\ ~LoopContinues(call, call.v[4])

\* The residual of the rate the loop hands on, Math.abs(f(bestI)), and the
\* lowest residual of the iterates the loop evaluated, which is what bestF
\* (bestNPV) holds.
HandedOnResidual == RAbs(LoopApply(call.fn, state, call.v[2]))
LowestResidualSeen == call.v[3]

\* C31: when the Newton loop of solveIY or of calculateIRR ends, the rate it
\* hands on (bestI, bestR) has a residual that is not greater than the
\* residual of any iterate evaluated in the loop.
C31_BestIterateHandedOn ==
  NewtonLoopEnded => ~RGt(HandedOnResidual, LowestResidualSeen)

\* ---- C32 ----
\* C32: when the promise that the activate listener gives to
\* event.waitUntil fulfils, every cache that existed under a name other
\* than CACHE_NAME when the activation started is deleted, and the cache
\* CACHE_NAME is not.
C32_ActivateCleansUp ==
  (call.fn = "activate" /\ call.waitUntil = "fulfilled") =>
    /\ \A name \in call.before : name # CACHE_NAME => name \notin state.names
    /\ CACHE_NAME \in call.before => CACHE_NAME \in state.names

\* An activation that found two old caches and the cache CACHE_NAME.
C32_Witness ==
  /\ call.fn = "activate"
  /\ call.waitUntil = "fulfilled"
  /\ call.before = OldCacheNames \cup {CACHE_NAME}
  /\ state.names = {CACHE_NAME}
  /\ state.worker = "activated"

\* ---- C33 ----
\* C33: the list of cash flows is never empty and the cursor is an index of
\* it, after any sequence of the keys CF, UP, DOWN, ENTER, INS, DEL and
\* RESET; DEL never removes CF0: the list it leaves is not empty, and when
\* it is shorter its first cash flow is the one that was there.
C33_CashFlowCursorValid ==
  /\ [](/\ Len(state.cashFlows) >= 1
        /\ 0 <= state.cfIndex
        /\ state.cfIndex < Len(state.cashFlows))
  /\ [][call' = [fn |-> "delKey"] =>
          /\ Len(state'.cashFlows) >= 1
          /\ Len(state'.cashFlows) < Len(state.cashFlows) =>
               state'.cashFlows[1] = state.cashFlows[1]]_vars

\* DEL on the last of three cash flows: the cursor moves to the one before.
C33_Witness ==
  /\ call = [fn |-> "delKey"]
  /\ message.text = <<"Cash flow deleted">>
  /\ Len(state.cashFlows) = 2
  /\ state.cfIndex = 1
  /\ state.cashFlows[2] # Zero

\* ---- C34 ----

\* C34: in every reachable state the amortization range is a single period,
\* amortP1 = amortP2, and it starts at period 1 or later: AMORT, the up and
\* down keys, ENTER with a period and RESET never leave a range of several
\* periods.
C34_SinglePeriodRange ==
  /\ state.amortP1 = state.amortP2
  /\ state.amortP1 >= 1

\* The down key has moved the range from period 1 to period 2 or later.
C34_Witness ==
  /\ call = [fn |-> "downKey"]
  /\ state.mode = "amort"
  /\ state.amortP1 >= 2
  /\ state.amortP2 = state.amortP1
  /\ state.amortResults # Null

\* ---- C35 ----

\* The registers of st that differ in st2.
RegistersWritten(st, st2) == {v \in TvmVarSet : st2[v] # st[v]}

C36_AmortLeavesAmortMode ==
  [][(call'.fn = "enterAmortMode" /\ state.mode = "amort")
       => state'.mode = "tvm"]_vars

====
